---- MODULE Spec2Model ----
(***************************************************************************)
(* trellofs: a read-only FUSE filesystem over a remote board service.      *)
(* The model follows src/src/fs (the node variants and the protocol        *)
(* adapter), src/src/trello (the remote client) and the field renderer.    *)
(*                                                                         *)
(* Every kernel-facing operation takes fs.lock for its whole body, so each *)
(* operation is one atomic action.  Nodes live in a heap (nodes); a node   *)
(* reference is an index into it, NIL is the nil pointer.                  *)
(***************************************************************************)
EXTENDS Integers, Sequences, FiniteSets, TLC

VARIABLES
    nodes,       \* the heap of FSNode objects, indexed by reference
    inodes,      \* trelloFS.inodes: inode id -> node reference (NIL = nil)
    freeInodes,  \* trelloFS.freeInodes
    byID,        \* trelloFS.byID: remote key -> inode id
    now,         \* the wall clock, in seconds
    crashed,     \* the process has terminated (panic or log.Fatalf)
    reply,       \* what the last operation returned to the transport
    ls,          \* a client listing one directory page by page
    lock,        \* trelloFS.lock: the thread that holds it, or NoThread
    pc           \* where each transport thread is in its operation

vars == <<nodes, inodes, freeInodes, byID, now, crashed, reply, ls, lock, pc>>

----------------------------------------------------------------------------
(* Bounds of the model *)

\* clock ticks the model lets pass
MaxTicks == 1
\* records one remote query returns at most
MaxRecs == 2
\* records one remote query returns at most, where directories are paged
MaxListed == 3
\* the longest destination buffer and the largest offset of a file read
MaxBuf == 6
MaxOffset == 6

(* Program constants *)

\* fuseops.RootInodeID
RootInodeID == 1
\* the zero time.Time of a fresh BaseFSNode.lastUpdate
ZeroTime == 0
\* refresh intervals, seconds
RootInterval == 60
WorkspaceInterval == 60
BoardInterval == 30
CardsDirInterval == 30
ListsDirInterval == 60
ListInterval == 30
CardInterval == 30
\* fuse_dirent header: ino(8) + off(8) + namelen(4) + type(4)
DirentHeader == 24
DirentAlignment == 8

NIL == 0

\* seconds one clock tick advances: the shortest refresh interval
TickSecs == CardsDirInterval
\* the clock starts when the mount is made, long after the zero time
StartTime == RootInterval + ListsDirInterval
EndTime == StartTime + MaxTicks * TickSecs

\* mount-time owner
Uids == {1000}
Gids == {100}

----------------------------------------------------------------------------
(* Generic helpers *)

Min(a, b) == IF a < b THEN a ELSE b

\* Go map assignment m[k] = v
MapPut(m, k, v) == [x \in (DOMAIN m) \cup {k} |-> IF x = k THEN v ELSE m[x]]

\* Go map membership: _, exists := m[k]
MapHas(m, k) == k \in DOMAIN m

EmptyMap == <<>>

\* all sequences over S of length at most n whose elements have distinct ids
RECURSIVE SeqsUpTo(_, _)
SeqsUpTo(S, n) ==
    IF n = 0 THEN {<<>>}
    ELSE LET shorter == SeqsUpTo(S, n - 1)
         IN  shorter \cup
             {Append(s, x) : s \in {t \in shorter : Len(t) = n - 1}, x \in S}

DistinctIDs(s) == \A i, j \in 1..Len(s) : i # j => s[i].ID # s[j].ID

----------------------------------------------------------------------------
(* The remote service (src/src/trello) *)

\* a *Board: nil, or the address of a board record
NoBoard == <<>>
BoardPtr(board) == <<board>>

\* a remote record as json.Unmarshal fills it: its stable id, its current
\* name, the fields the filesystem reads
WorkspaceRec(id, name) == [ID |-> id, Name |-> name]
BoardRec(id, name) == [ID |-> id, Name |-> name]
\* List.Board has no json tag of its own and the service sends no "board"
ListRec(id, name) ==
    [ID |-> id, Name |-> name, Closed |-> FALSE, Board |-> NoBoard]

\* trello.Card; Board is filled only when the card's JSON carries a "board"
\* object (encoding/json matches the untagged field by its name)
CardRec(id, name, desc, members, dueComplete, board) ==
    [ID |-> id, Name |-> name, Desc |-> desc, ListID |-> "l1", BoardID |-> "b1",
     MemberIDs |-> members, Labels |-> <<[ID |-> "x1", Name |-> "red"]>>,
     Due |-> "", DueComplete |-> dueComplete, LastActive |-> "", Board |-> board]

\* the card records a flat snapshot holds: id, name, no nested board
FlatCard(id, name) == CardRec(id, name, "", <<>>, FALSE, NoBoard)

\* The service as the tree specification sees it: one workspace, one board,
\* one list, two cards that can be renamed, reordered and share a name.
TreeWorld ==
    [maxRecs |-> MaxRecs,
     workspaces |-> {WorkspaceRec("w1", "W")},
     boards |-> {BoardRec("b1", "B")},
     lists |-> {ListRec("l1", "L")},
     cards |-> {FlatCard(id, name) : id \in {"c1", "c2"}, name \in {"C", "D"}}]

\* The service as the card specification sees it: one card, as the flat
\* snapshot reports it and as a snapshot with a nested board object does.
CardWorld ==
    [maxRecs |-> 1,
     workspaces |-> {WorkspaceRec("w1", "W")},
     boards |-> {BoardRec("b1", "B")},
     lists |-> {ListRec("l1", "L")},
     cards |-> {FlatCard("c1", "C"),
                CardRec("c1", "C", "", <<>>, FALSE,
                        BoardPtr(BoardRec("b1", "B"))),
                CardRec("c1", "C", "hi", <<"a", "b">>, TRUE,
                        BoardPtr(BoardRec("b1", "B")))}]

\* The service as the listing specification sees it: one workspace with up
\* to three boards whose directory entries differ in size.
ListingWorld ==
    [maxRecs |-> MaxListed,
     workspaces |-> {WorkspaceRec("w1", "W")},
     boards |-> {BoardRec("b1", "B"), BoardRec("b2", "Boardname"),
                 BoardRec("b3", "C")},
     lists |-> {}, cards |-> {}]

\* the outcome of ctx.ApiGet: an error, or a list whose ids are distinct
ApiError == [err |-> TRUE, recs |-> <<>>]
ApiOk(recs) == [err |-> FALSE, recs |-> recs]
Responses(R, n) ==
    {ApiError} \cup {ApiOk(s) : s \in {t \in SeqsUpTo(R, n) : DistinctIDs(t)}}
NoQuery == {ApiOk(<<>>)}

\* for _, c := range cards { c.Board = board }: the assignment goes to the
\* loop's copy of the element, the slice that is returned keeps Board nil
RangeCopyAssign(recs, board) == recs

GetWorkspaces(resp) == resp
Workspace_GetBoards(resp) == resp
Board_GetCards(board, resp) ==
    IF resp.err THEN resp ELSE ApiOk(RangeCopyAssign(resp.recs, board))
Board_GetLists(board, resp) ==
    IF resp.err THEN resp ELSE ApiOk(RangeCopyAssign(resp.recs, board))
List_GetCards(list, resp) ==
    IF resp.err THEN resp ELSE ApiOk(RangeCopyAssign(resp.recs, list.Board))

\* &card, &list inside "for _, card := range cards": every iteration shares
\* the one loop variable, which holds the last element once the loop ends
AddrOfRangeVar(recs, i) == recs[Len(recs)]

----------------------------------------------------------------------------
(* Node construction *)

DirAttrs(uid, gid) ==
    [Mode |-> "0700|ModeDir", Nlink |-> 0, Uid |-> uid, Gid |-> gid, Size |-> 0]
\* file attributes that leave Size at its zero value
FileAttrsUnsized(uid, gid, size) ==
    [Mode |-> "0600", Nlink |-> 1, Uid |-> uid, Gid |-> gid, Size |-> 0]

FileAttrs(uid, gid, size) ==
    [Mode |-> "0600", Nlink |-> 1, Uid |-> uid, Gid |-> gid, Size |-> size]

initRoot(uid, gid) ==
    [kind |-> "root", name |-> "/", uid |-> uid, gid |-> gid,
     NodeID |-> RootInodeID, NodeAttrs |-> DirAttrs(uid, gid), isDir |-> TRUE,
     TrelloID |-> "rootID", lastUpdate |-> ZeroTime,
     workspaces |-> <<>>, byID |-> EmptyMap, byName |-> EmptyMap]

\* a workspace node that counts as refreshed from the moment of the mount
NewFSWorkspaceStamped(ws, uid, gid) ==
    [kind |-> "workspace", name |-> ws.Name, uid |-> uid, gid |-> gid,
     NodeID |-> 0, NodeAttrs |-> DirAttrs(uid, gid), isDir |-> TRUE,
     TrelloID |-> ws.ID, lastUpdate |-> StartTime,
     Boards |-> <<>>, ByID |-> EmptyMap, ByName |-> EmptyMap, Workspace |-> ws]

NewFSWorkspace(ws, uid, gid) ==
    [kind |-> "workspace", name |-> ws.Name, uid |-> uid, gid |-> gid,
     NodeID |-> 0, NodeAttrs |-> DirAttrs(uid, gid), isDir |-> TRUE,
     TrelloID |-> ws.ID, lastUpdate |-> ZeroTime,
     Boards |-> <<>>, ByID |-> EmptyMap, ByName |-> EmptyMap, Workspace |-> ws]

NewFSBoard(board, uid, gid) ==
    [kind |-> "board", name |-> board.Name, uid |-> uid, gid |-> gid,
     NodeID |-> 0, NodeAttrs |-> DirAttrs(uid, gid), isDir |-> TRUE,
     TrelloID |-> board.ID, lastUpdate |-> ZeroTime,
     MetaCardsDir |-> NIL, MetaListsDir |-> NIL,
     Cards |-> <<>>, ByCardID |-> EmptyMap, ByCardName |-> EmptyMap,
     Lists |-> <<>>, ByListID |-> EmptyMap, ByListName |-> EmptyMap,
     Board |-> board]

NewMetaDir(kind, name, boardRef, boardNode) ==
    [kind |-> kind, name |-> name, uid |-> boardNode.uid, gid |-> boardNode.gid,
     NodeID |-> 0, NodeAttrs |-> DirAttrs(boardNode.uid, boardNode.gid),
     isDir |-> TRUE, TrelloID |-> boardNode.TrelloID \o "/" \o name,
     lastUpdate |-> ZeroTime, BoardNode |-> boardRef]

NewFSList(list, listPtr, uid, gid, boardRef) ==
    [kind |-> "list", name |-> list.Name, uid |-> uid, gid |-> gid,
     NodeID |-> 0, NodeAttrs |-> DirAttrs(uid, gid), isDir |-> TRUE,
     TrelloID |-> list.ID, lastUpdate |-> ZeroTime,
     Cards |-> <<>>, ByID |-> EmptyMap, ByName |-> EmptyMap,
     BoardNode |-> boardRef, List |-> listPtr]

NewFSCard(card, cardPtr, uid, gid) ==
    [kind |-> "card", name |-> card.Name, uid |-> uid, gid |-> gid,
     NodeID |-> 0, NodeAttrs |-> DirAttrs(uid, gid), isDir |-> TRUE,
     TrelloID |-> card.ID, lastUpdate |-> ZeroTime,
     MetaFiles |-> <<>>, ByName |-> EmptyMap, ByID |-> EmptyMap, Card |-> cardPtr]

NewFSCardMetaFile(entry, trelloID, cardNode) ==
    [kind |-> "file", name |-> entry.Name, uid |-> cardNode.uid,
     gid |-> cardNode.gid, NodeID |-> 0,
     NodeAttrs |-> FileAttrs(cardNode.uid, cardNode.gid, Len(entry.Contents)),
     isDir |-> FALSE, TrelloID |-> trelloID, lastUpdate |-> ZeroTime,
     contents |-> entry.Contents, Card |-> cardNode.Card]

----------------------------------------------------------------------------
(* The field renderer (getMeta) *)

\* the fields of trello.Card in declaration order: Go name, json tag, Go type
CardFields ==
    << [Name |-> "ID",          Tag |-> "id",               Type |-> "string"],
       [Name |-> "Name",        Tag |-> "name",             Type |-> "string"],
       [Name |-> "Desc",        Tag |-> "desc",             Type |-> "string"],
       [Name |-> "ListID",      Tag |-> "idList",           Type |-> "string"],
       [Name |-> "BoardID",     Tag |-> "idBoard",          Type |-> "string"],
       [Name |-> "MemberIDs",   Tag |-> "idMembers",        Type |-> "[]string"],
       [Name |-> "Labels",      Tag |-> "labels",           Type |-> "[]CardLabel"],
       [Name |-> "Due",         Tag |-> "due",              Type |-> "string"],
       [Name |-> "DueComplete", Tag |-> "dueComplete",      Type |-> "bool"],
       [Name |-> "LastActive",  Tag |-> "dateLastActivity", Type |-> "string"],
       [Name |-> "Board",       Tag |-> "",                 Type |-> "*Board"] >>

\* reflect.Type.Name(): the name of a defined type, empty for a slice or a
\* pointer type
TypeName(type) ==
    CASE type = "string" -> "string"
      [] type = "bool" -> "bool"
      [] OTHER -> ""

\* contentStr += fmt.Sprintf("%s\n", entry) over arr
RECURSIVE JoinLines(_)
JoinLines(arr) ==
    IF arr = <<>> THEN "" ELSE Head(arr) \o "\n" \o JoinLines(Tail(arr))

\* the switch on field.Type.Name(): the rendered text and whether the type
\* fell to the default branch
RenderField(typeName, fieldVal) ==
    CASE typeName = "string" -> [unknown |-> FALSE, contentStr |-> fieldVal]
      [] typeName = "bool" ->
            [unknown |-> FALSE,
             contentStr |-> IF fieldVal THEN "true" ELSE "false"]
      [] typeName = "[]string" ->
            [unknown |-> FALSE, contentStr |-> JoinLines(fieldVal)]
      [] OTHER -> [unknown |-> TRUE, contentStr |-> ""]

RECURSIVE getMetaLoop(_, _, _)
getMetaLoop(item, i, entries) ==
    IF i > Len(CardFields) THEN entries
    ELSE LET field == CardFields[i]
             r == RenderField(TypeName(field.Type), item[field.Name])
         IN  IF field.Tag = "" \/ field.Tag = "-" \/ r.unknown
             THEN getMetaLoop(item, i + 1, entries)
             ELSE getMetaLoop(item, i + 1,
                      Append(entries,
                             [Name |-> field.Name, Contents |-> r.contentStr]))

getMeta(item) == getMetaLoop(item, 1, <<>>)

----------------------------------------------------------------------------
(* Update of each node variant: the heap after it, the nodes it created,   *)
(* whether the remote query failed, whether the goroutine panicked         *)

Updated(h, add) == [h |-> h, add |-> add, err |-> FALSE, panic |-> FALSE]
UpdateFailed(h) == [h |-> h, add |-> <<>>, err |-> TRUE, panic |-> FALSE]
UpdatePanic(h) == [h |-> h, add |-> <<>>, err |-> FALSE, panic |-> TRUE]

\* BaseFSNode.markUpdated
markUpdated(h, n, t) == [h EXCEPT ![n].lastUpdate = t]

RECURSIVE RootUpdateLoop(_, _, _, _, _)
RootUpdateLoop(h, n, workspaces, i, newNodes) ==
    IF i > Len(workspaces) THEN [h |-> h, add |-> newNodes]
    ELSE LET ws == workspaces[i] IN
         IF MapHas(h[n].byID, ws.ID)
         THEN RootUpdateLoop(h, n, workspaces, i + 1, newNodes)
         ELSE LET ref == Len(h) + 1
                  newItem == NewFSWorkspace(ws, h[n].uid, h[n].gid)
                  h1 == [h EXCEPT ![n].byID = MapPut(@, ws.ID, ref),
                                  ![n].byName = MapPut(@, ws.Name, ref),
                                  ![n].workspaces = Append(@, ref)]
              IN  RootUpdateLoop(Append(h1, newItem), n, workspaces, i + 1,
                                 Append(newNodes, ref))

\* a root that would stamp itself although the query failed
TrelloTreeRoot_UpdateStamping(h, n, resp, t) ==
    LET q == GetWorkspaces(resp) IN
    IF q.err THEN UpdateFailed(markUpdated(h, n, t))
    ELSE LET r == RootUpdateLoop(h, n, q.recs, 1, <<>>)
         IN  Updated(markUpdated(r.h, n, t), r.add)

TrelloTreeRoot_Update(h, n, resp, t) ==
    LET q == GetWorkspaces(resp) IN
    IF q.err THEN UpdateFailed(h)
    ELSE LET r == RootUpdateLoop(h, n, q.recs, 1, <<>>)
         IN  Updated(markUpdated(r.h, n, t), r.add)

\* a workspace refresh that would put each new board in front of the ones
\* the workspace has
RECURSIVE WorkspacePrependLoop(_, _, _, _, _)
WorkspacePrependLoop(h, n, boards, i, newNodes) ==
    IF i > Len(boards) THEN [h |-> h, add |-> newNodes]
    ELSE LET board == boards[i] IN
         IF MapHas(h[n].ByID, board.ID)
         THEN WorkspacePrependLoop(h, n, boards, i + 1, newNodes)
         ELSE LET ref == Len(h) + 1
                  newItem == NewFSBoard(board, h[n].uid, h[n].gid)
                  h1 == [h EXCEPT ![n].ByID = MapPut(@, board.ID, ref),
                                  ![n].ByName = MapPut(@, board.Name, ref),
                                  ![n].Boards = <<ref>> \o @]
              IN  WorkspacePrependLoop(Append(h1, newItem), n, boards, i + 1,
                                       Append(newNodes, ref))

RECURSIVE WorkspaceUpdateLoop(_, _, _, _, _)
WorkspaceUpdateLoop(h, n, boards, i, newNodes) ==
    IF i > Len(boards) THEN [h |-> h, add |-> newNodes]
    ELSE LET board == boards[i] IN
         IF MapHas(h[n].ByID, board.ID)
         THEN WorkspaceUpdateLoop(h, n, boards, i + 1, newNodes)
         ELSE LET ref == Len(h) + 1
                  newItem == NewFSBoard(board, h[n].uid, h[n].gid)
                  h1 == [h EXCEPT ![n].ByID = MapPut(@, board.ID, ref),
                                  ![n].ByName = MapPut(@, board.Name, ref),
                                  ![n].Boards = Append(@, ref)]
              IN  WorkspaceUpdateLoop(Append(h1, newItem), n, boards, i + 1,
                                      Append(newNodes, ref))

\* a workspace refresh that would forget to stamp itself after the boards
\* have been merged
FSWorkspace_UpdateUnstamped(h, n, resp, t) ==
    LET q == Workspace_GetBoards(resp) IN
    IF q.err THEN UpdateFailed(h)
    ELSE LET r == WorkspaceUpdateLoop(h, n, q.recs, 1, <<>>)
         IN  Updated(r.h, r.add)

FSWorkspace_UpdatePrepending(h, n, resp, t) ==
    LET q == Workspace_GetBoards(resp) IN
    IF q.err THEN UpdateFailed(h)
    ELSE LET r == WorkspacePrependLoop(h, n, q.recs, 1, <<>>)
         IN  Updated(markUpdated(r.h, n, t), r.add)

FSWorkspace_Update(h, n, resp, t) ==
    LET q == Workspace_GetBoards(resp) IN
    IF q.err THEN UpdateFailed(h)
    ELSE LET r == WorkspaceUpdateLoop(h, n, q.recs, 1, <<>>)
         IN  Updated(markUpdated(r.h, n, t), r.add)

\* an update that builds the two directories on every call
FSBoard_UpdateRecreating(h, n, t) ==
    LET cardsRef == Len(h) + 1
        listsRef == Len(h) + 2
        h1 == [h EXCEPT ![n].MetaCardsDir = cardsRef,
                        ![n].MetaListsDir = listsRef]
        h2 == h1 \o << NewMetaDir("cardsdir", "cards", n, h[n]),
                       NewMetaDir("listsdir", "lists", n, h[n]) >>
    IN  Updated(markUpdated(h2, n, t), <<cardsRef, listsRef>>)

FSBoard_Update(h, n, t) ==
    IF h[n].MetaCardsDir # NIL /\ h[n].MetaListsDir # NIL
    THEN Updated(h, <<>>)
    ELSE LET cardsRef == Len(h) + 1
             listsRef == Len(h) + 2
             h1 == [h EXCEPT ![n].MetaCardsDir = cardsRef,
                             ![n].MetaListsDir = listsRef]
             h2 == h1 \o << NewMetaDir("cardsdir", "cards", n, h[n]),
                            NewMetaDir("listsdir", "lists", n, h[n]) >>
         IN  Updated(markUpdated(h2, n, t), <<cardsRef, listsRef>>)

RECURSIVE CardsDirUpdateLoop(_, _, _, _, _)
CardsDirUpdateLoop(h, n, cards, i, newNodes) ==
    IF i > Len(cards) THEN [h |-> h, add |-> newNodes]
    ELSE LET card == cards[i]
             b == h[n].BoardNode
         IN
         IF MapHas(h[b].ByCardID, card.ID)
         THEN CardsDirUpdateLoop(h, n, cards, i + 1, newNodes)
         ELSE LET ref == Len(h) + 1
                  newCard == NewFSCard(card, AddrOfRangeVar(cards, i),
                                       h[n].uid, h[n].gid)
                  h1 == [h EXCEPT ![b].Cards = Append(@, ref),
                                  ![b].ByCardID = MapPut(@, card.ID, ref),
                                  ![b].ByCardName = MapPut(@, card.Name, ref)]
              IN  CardsDirUpdateLoop(Append(h1, newCard), n, cards, i + 1,
                                     Append(newNodes, ref))

\* a cards collection that would follow the remote names of its cards
RECURSIVE RenameCards(_, _, _, _)
RenameCards(h, b, cards, i) ==
    IF i > Len(cards) THEN h
    ELSE RenameCards([h EXCEPT ![h[b].ByCardID[cards[i].ID]].name = cards[i].Name],
                     b, cards, i + 1)

FSBoardCardsDirMeta_UpdateRenaming(h, n, resp, t) ==
    LET q == Board_GetCards(h[h[n].BoardNode].Board, resp) IN
    IF q.err THEN UpdateFailed(h)
    ELSE LET r == CardsDirUpdateLoop(h, n, q.recs, 1, <<>>)
         IN  Updated(markUpdated(RenameCards(r.h, h[n].BoardNode, q.recs, 1), n, t),
                     r.add)

\* a cards collection that would drop the cards the remote no longer reports
FSBoardCardsDirMeta_UpdatePruning(h, n, resp, t) ==
    LET q == Board_GetCards(h[h[n].BoardNode].Board, resp) IN
    IF q.err THEN UpdateFailed(h)
    ELSE LET r == CardsDirUpdateLoop(h, n, q.recs, 1, <<>>)
             b == h[n].BoardNode
             reported == {q.recs[i].ID : i \in 1..Len(q.recs)}
             kept == SelectSeq(r.h[b].Cards,
                               LAMBDA c : r.h[c].TrelloID \in reported)
         IN  Updated(markUpdated([r.h EXCEPT ![b].Cards = kept], n, t), r.add)

\* an update that takes a record for present when its name is present
FSBoardCardsDirMeta_UpdateByName(h, n, resp, t) ==
    LET q == Board_GetCards(h[h[n].BoardNode].Board, resp) IN
    IF q.err THEN UpdateFailed(h)
    ELSE LET b == h[n].BoardNode
             unnamed == SelectSeq(q.recs,
                                  LAMBDA c : ~MapHas(h[b].ByCardName, c.Name))
             r == CardsDirUpdateLoop(h, n, unnamed, 1, <<>>)
         IN  Updated(markUpdated(r.h, n, t), r.add)

FSBoardCardsDirMeta_Update(h, n, resp, t) ==
    LET q == Board_GetCards(h[h[n].BoardNode].Board, resp) IN
    IF q.err THEN UpdateFailed(h)
    ELSE LET r == CardsDirUpdateLoop(h, n, q.recs, 1, <<>>)
         IN  Updated(markUpdated(r.h, n, t), r.add)

RECURSIVE ListsDirUpdateLoop(_, _, _, _, _)
ListsDirUpdateLoop(h, n, lists, i, newNodes) ==
    IF i > Len(lists) THEN [h |-> h, add |-> newNodes]
    ELSE LET list == lists[i]
             b == h[n].BoardNode
         IN
         IF MapHas(h[b].ByListID, list.ID)
         THEN ListsDirUpdateLoop(h, n, lists, i + 1, newNodes)
         ELSE LET ref == Len(h) + 1
                  newList == NewFSList(list, AddrOfRangeVar(lists, i),
                                       h[n].uid, h[n].gid, b)
                  h1 == [h EXCEPT ![b].Lists = Append(@, ref),
                                  ![b].ByListID = MapPut(@, list.ID, ref),
                                  ![b].ByListName = MapPut(@, list.Name, ref)]
              IN  ListsDirUpdateLoop(Append(h1, newList), n, lists, i + 1,
                                     Append(newNodes, ref))

FSBoardListsDirMeta_Update(h, n, resp, t) ==
    LET q == Board_GetLists(h[h[n].BoardNode].Board, resp) IN
    IF q.err THEN UpdateFailed(h)
    ELSE LET r == ListsDirUpdateLoop(h, n, q.recs, 1, <<>>)
         IN  Updated(markUpdated(r.h, n, t), r.add)

\* the second half of the loop body of FSList.Update: the card joins the
\* list, and the board's collection with it, when the list does not hold it
ListAdopt(h, n, b, card, ref) ==
    IF MapHas(h[n].ByID, card.ID) THEN h
    ELSE [h EXCEPT ![n].Cards = Append(@, ref),
                   ![n].ByID = MapPut(@, card.ID, ref),
                   ![n].ByName = MapPut(@, card.Name, ref),
                   ![b].Cards = Append(@, ref),
                   ![b].ByCardID = MapPut(@, card.ID, ref),
                   ![b].ByCardName = MapPut(@, card.Name, ref)]

RECURSIVE ListUpdateLoop(_, _, _, _, _)
ListUpdateLoop(h, n, cards, i, newNodes) ==
    IF i > Len(cards) THEN [h |-> h, add |-> newNodes]
    ELSE LET card == cards[i]
             b == h[n].BoardNode
         IN
         IF MapHas(h[b].ByCardID, card.ID)
         THEN ListUpdateLoop(ListAdopt(h, n, b, card, h[b].ByCardID[card.ID]),
                             n, cards, i + 1, newNodes)
         ELSE LET ref == Len(h) + 1
                  newCard == NewFSCard(card, AddrOfRangeVar(cards, i),
                                       h[n].uid, h[n].gid)
              IN  ListUpdateLoop(ListAdopt(Append(h, newCard), n, b, card, ref),
                                 n, cards, i + 1, Append(newNodes, ref))

FSList_Update(h, n, resp, t) ==
    LET q == List_GetCards(h[n].List, resp) IN
    IF q.err THEN UpdateFailed(h)
    ELSE LET r == ListUpdateLoop(h, n, q.recs, 1, <<>>)
         IN  Updated(markUpdated(r.h, n, t), r.add)

RECURSIVE CardUpdateLoop(_, _, _, _, _)
CardUpdateLoop(h, n, meta, i, newNodes) ==
    IF i > Len(meta) THEN [h |-> h, add |-> newNodes]
    ELSE LET entry == meta[i] IN
         IF MapHas(h[n].ByName, entry.Name)
         THEN CardUpdateLoop(h, n, meta, i + 1, newNodes)
         ELSE LET ref == Len(h) + 1
                  trelloID == h[n].TrelloID \o "/_meta/" \o entry.Name
                  metaFile == NewFSCardMetaFile(entry, trelloID, h[n])
                  h1 == [h EXCEPT ![n].MetaFiles = Append(@, ref),
                                  ![n].ByName = MapPut(@, entry.Name, ref),
                                  ![n].ByID = MapPut(@, trelloID, ref)]
              IN  CardUpdateLoop(Append(h1, metaFile), n, meta, i + 1,
                                 Append(newNodes, ref))

\* an update that does not remember which field files the card has
FSCard_UpdateForgetful(h, n) ==
    IF h[n].Card.Board = NoBoard THEN UpdatePanic(h)
    ELSE LET r == CardUpdateLoop([h EXCEPT ![n].ByName = EmptyMap], n,
                                 getMeta(h[n].Card), 1, <<>>)
         IN  Updated(r.h, r.add)

\* a card refresh that would stamp the card like the other refreshes do
FSCard_UpdateStamping(h, n) ==
    IF h[n].Card.Board = NoBoard THEN UpdatePanic(h)
    ELSE LET r == CardUpdateLoop(h, n, getMeta(h[n].Card), 1, <<>>)
         IN  Updated(markUpdated(r.h, n, now), r.add)

\* board := node.Card.Board; board.Name is read for the log line before
\* anything else: a nil Board is a nil-pointer dereference
FSCard_Update(h, n) ==
    IF h[n].Card.Board = NoBoard THEN UpdatePanic(h)
    ELSE LET r == CardUpdateLoop(h, n, getMeta(h[n].Card), 1, <<>>)
         IN  Updated(r.h, r.add)

\* FSCardMetaFile.Update
FSCardMetaFile_Update(h, n) == UpdateFailed(h)

Update(h, n, resp, t) ==
    CASE h[n].kind = "root" -> TrelloTreeRoot_Update(h, n, resp, t)
      [] h[n].kind = "workspace" -> FSWorkspace_Update(h, n, resp, t)
      [] h[n].kind = "board" -> FSBoard_Update(h, n, t)
      [] h[n].kind = "cardsdir" -> FSBoardCardsDirMeta_Update(h, n, resp, t)
      [] h[n].kind = "listsdir" -> FSBoardListsDirMeta_Update(h, n, resp, t)
      [] h[n].kind = "list" -> FSList_Update(h, n, resp, t)
      [] h[n].kind = "card" -> FSCard_Update(h, n)
      [] h[n].kind = "file" -> FSCardMetaFile_Update(h, n)

----------------------------------------------------------------------------
(* The refresh policy *)

\* a policy that would refresh whenever the clock has moved
shouldUpdateOnTick(node, interval, t) == t - node.lastUpdate > 0

\* a comparison that leaves out the instant the interval has just elapsed
shouldUpdateStrict(node, interval, t) == t - node.lastUpdate > interval

\* time.Since(base.lastUpdate).Seconds() >= interval
shouldUpdate(node, interval, t) == t - node.lastUpdate >= interval

ShouldUpdate(h, n, t) ==
    CASE h[n].kind = "root" -> shouldUpdate(h[n], RootInterval, t)
      [] h[n].kind = "workspace" -> shouldUpdate(h[n], WorkspaceInterval, t)
      [] h[n].kind = "board" -> shouldUpdate(h[n], BoardInterval, t)
      [] h[n].kind = "cardsdir" -> shouldUpdate(h[n], CardsDirInterval, t)
      [] h[n].kind = "listsdir" -> shouldUpdate(h[n], ListsDirInterval, t)
      [] h[n].kind = "list" -> shouldUpdate(h[n], ListInterval, t)
      [] h[n].kind = "card" -> shouldUpdate(h[n], CardInterval, t)
      [] h[n].kind = "file" -> FALSE

\* the remote query Update makes for a node of this kind, if any
QueryOf(h, n) ==
    CASE h[n].kind = "root" -> "workspaces"
      [] h[n].kind = "workspace" -> "boards/" \o h[n].Workspace.ID
      [] h[n].kind = "cardsdir" -> "board-cards/" \o h[h[n].BoardNode].Board.ID
      [] h[n].kind = "listsdir" -> "board-lists/" \o h[h[n].BoardNode].Board.ID
      [] h[n].kind = "list" -> "list-cards/" \o h[n].List.ID
      [] OTHER -> "none"

\* what that query can answer in world W
ResponsesOf(h, n, W) ==
    CASE h[n].kind = "root" -> Responses(W.workspaces, W.maxRecs)
      [] h[n].kind = "workspace" -> Responses(W.boards, W.maxRecs)
      [] h[n].kind = "cardsdir" -> Responses(W.cards, W.maxRecs)
      [] h[n].kind = "listsdir" -> Responses(W.lists, W.maxRecs)
      [] h[n].kind = "list" -> Responses(W.cards, W.maxRecs)
      [] OTHER -> NoQuery

----------------------------------------------------------------------------
(* The inode table *)

\* fs.inodes[id]; the Go slice index id is position id + 1 here
InodeAt(tbl, id) == tbl[id + 1]

\* an allocation that takes the last used index instead of the next one
AllocInodeLastIndex(st, n) ==
    LET id == Len(st.inodes) - 1
    IN  [nodes |-> [st.nodes EXCEPT ![n].NodeID = id],
         inodes |-> Append(st.inodes, n),
         freeInodes |-> st.freeInodes,
         byID |-> MapPut(st.byID, st.nodes[n].TrelloID, id)]

\* an allocation that leaves the remote-key index alone
AllocInodeUnindexed(st, n) ==
    LET id == Len(st.inodes)
    IN  [nodes |-> [st.nodes EXCEPT ![n].NodeID = id],
         inodes |-> Append(st.inodes, n),
         freeInodes |-> st.freeInodes,
         byID |-> st.byID]

\* an allocation that numbers the node one past the slot it is stored in
AllocInodeOffByOne(st, n) ==
    LET id == Len(st.inodes) + 1
    IN  [nodes |-> [st.nodes EXCEPT ![n].NodeID = id],
         inodes |-> Append(st.inodes, n),
         freeInodes |-> st.freeInodes,
         byID |-> MapPut(st.byID, st.nodes[n].TrelloID, id)]

\* the body of "for _, n := range add" in refreshNode
AllocInode(st, n) ==
    LET numFree == Len(st.freeInodes)
        id == IF numFree > 0 THEN st.freeInodes[numFree] ELSE Len(st.inodes)
    IN  [nodes |-> [st.nodes EXCEPT ![n].NodeID = id],
         inodes |-> IF numFree > 0 THEN [st.inodes EXCEPT ![id + 1] = n]
                    ELSE Append(st.inodes, n),
         freeInodes |-> IF numFree > 0 THEN SubSeq(st.freeInodes, 1, numFree - 1)
                        ELSE st.freeInodes,
         byID |-> MapPut(st.byID, st.nodes[n].TrelloID, id)]

RECURSIVE AllocAll(_, _, _)
AllocAll(st, add, i) ==
    IF i > Len(add) THEN st ELSE AllocAll(AllocInode(st, add[i]), add, i + 1)

\* trelloFS.refreshNode: the table and heap after it, and what happened:
\* "fresh" (not due), "ok", "failed" (Update returned an error), "panic"
refreshNode(st, n, resp, t) ==
    IF ~ShouldUpdate(st.nodes, n, t)
    THEN [st |-> st, outcome |-> "fresh", query |-> "none", add |-> <<>>]
    ELSE LET u == Update(st.nodes, n, resp, t) IN
         IF u.panic
         THEN [st |-> st, outcome |-> "panic", query |-> "none", add |-> <<>>]
         ELSE IF u.err
         THEN [st |-> [st EXCEPT !.nodes = u.h], outcome |-> "failed",
               query |-> QueryOf(st.nodes, n), add |-> <<>>]
         ELSE [st |-> AllocAll([st EXCEPT !.nodes = u.h], u.add, 1),
               outcome |-> "ok", query |-> QueryOf(st.nodes, n), add |-> u.add]

----------------------------------------------------------------------------
(* Lookup of a child by name *)

\* "for _, x := range kids { if x.GetName() == name { return x, nil } }"
\* a lookup through the name index, where the child seen last has
\* overwritten the entry of the name
LastNamed(h, kids, name) ==
    LET hits == {i \in 1..Len(kids) : h[kids[i]].name = name}
    IN  IF hits = {} THEN NIL
        ELSE kids[CHOOSE i \in hits : \A j \in hits : i >= j]

FirstNamed(h, kids, name) ==
    LET hits == {i \in 1..Len(kids) : h[kids[i]].name = name}
    IN  IF hits = {} THEN NIL
        ELSE kids[CHOOSE i \in hits : \A j \in hits : i <= j]

FSBoard_LookupChild(h, n, name) ==
    IF name = "lists" THEN h[n].MetaListsDir
    ELSE IF name = "cards" THEN h[n].MetaCardsDir
    ELSE NIL

\* the child's reference, NIL for fuse.ENOENT
LookupChild(h, n, name) ==
    CASE h[n].kind = "root" -> FirstNamed(h, h[n].workspaces, name)
      [] h[n].kind = "workspace" -> FirstNamed(h, h[n].Boards, name)
      [] h[n].kind = "board" -> FSBoard_LookupChild(h, n, name)
      [] h[n].kind = "cardsdir" -> FirstNamed(h, h[h[n].BoardNode].Cards, name)
      [] h[n].kind = "listsdir" -> FirstNamed(h, h[h[n].BoardNode].Lists, name)
      [] h[n].kind = "list" -> FirstNamed(h, h[n].Cards, name)
      [] h[n].kind = "card" -> FirstNamed(h, h[n].MetaFiles, name)
      [] h[n].kind = "file" -> NIL

----------------------------------------------------------------------------
(* Directory listing *)

\* the bytes fuseutil.WriteDirent needs for a name: the fixed header, the
\* name, and padding up to the alignment
DirentLen(name) ==
    LET rem == Len(name) % DirentAlignment
        padLen == IF rem # 0 THEN DirentAlignment - rem ELSE 0
    IN  DirentHeader + Len(name) + padLen

\* fuseutil.WriteDirent: 0 when the entry does not fit into buf
WriteDirent(bufLen, d) == IF DirentLen(d.Name) > bufLen THEN 0 ELSE DirentLen(d.Name)

\* an entry that would carry its own index as the continuation offset
DirentAtOwnIndex(h, ref, type, i) ==
    [Name |-> h[ref].name, Inode |-> h[ref].NodeID, Type |-> type, Offset |-> i]

Dirent(h, ref, type, i) ==
    [Name |-> h[ref].name, Inode |-> h[ref].NodeID, Type |-> type, Offset |-> i + 1]

\* "for i := offset; i < len(kids); i++": the entries written into dst
RECURSIVE ReadDirLoop(_, _, _, _, _, _)
ReadDirLoop(h, kids, type, i, room, written) ==
    IF i >= Len(kids) THEN written
    ELSE LET d == Dirent(h, kids[i + 1], type, i)
             tmp == WriteDirent(room, d)
         IN  IF tmp = 0 THEN written
             ELSE ReadDirLoop(h, kids, type, i + 1, room - tmp, Append(written, d))

RECURSIVE SizeOf(_)
SizeOf(entries) ==
    IF entries = <<>> THEN 0 ELSE DirentLen(Head(entries).Name) + SizeOf(Tail(entries))

\* the child sequence a directory lists, in listing order
Children(h, n) ==
    CASE h[n].kind = "root" -> h[n].workspaces
      [] h[n].kind = "workspace" -> h[n].Boards
      [] h[n].kind = "board" -> <<h[n].MetaCardsDir, h[n].MetaListsDir>>
      [] h[n].kind = "cardsdir" -> h[h[n].BoardNode].Cards
      [] h[n].kind = "listsdir" -> h[h[n].BoardNode].Lists
      [] h[n].kind = "list" -> h[n].Cards
      [] h[n].kind = "card" -> h[n].MetaFiles
      [] h[n].kind = "file" -> <<>>

\* node.ReadDir(dst, offset): the entries written, or a panic (FSCard.ReadDir
\* reads node.Card.Board.Name for its log line)
ReadDir(h, n, dstLen, offset) ==
    IF h[n].kind = "card" /\ h[n].Card.Board = NoBoard
    THEN [panic |-> TRUE, entries |-> <<>>]
    ELSE [panic |-> FALSE,
          entries |-> ReadDirLoop(h, Children(h, n),
                                  IF h[n].kind = "card" THEN "DT_File"
                                  ELSE "DT_Directory",
                                  offset, dstLen, <<>>)]

----------------------------------------------------------------------------
(* File content *)

\* a read that would slice contents[offset:] without looking at offset
ReadContentsUnguarded(contents, dstLen, offset) ==
    IF offset > Len(contents)
    THEN [n |-> 0, data |-> "", eof |-> FALSE, panic |-> TRUE]
    ELSE LET n == Min(dstLen, Len(contents) - offset)
         IN  [n |-> n, data |-> SubSeq(contents, offset + 1, offset + n),
              eof |-> n < dstLen, panic |-> FALSE]

\* FSCardMetaFile.ReadAt on contents, once the log line is past
ReadContents(contents, dstLen, offset) ==
    IF offset > Len(contents)
    THEN [n |-> 0, data |-> "", eof |-> TRUE, panic |-> FALSE]
    ELSE LET n == Min(dstLen, Len(contents) - offset)
         IN  [n |-> n, data |-> SubSeq(contents, offset + 1, offset + n),
              eof |-> n < dstLen, panic |-> FALSE]

\* FSCardMetaFile.ReadAt: the log line reads node.Card.Board.Name first
FSCardMetaFile_ReadAt(node, dstLen, offset) ==
    IF node.Card.Board = NoBoard
    THEN [n |-> 0, data |-> "", eof |-> FALSE, panic |-> TRUE]
    ELSE ReadContents(node.contents, dstLen, offset)

\* BaseFSNode.ReadAt, which every directory variant inherits
BaseFSNode_ReadAt(node, dstLen, offset) ==
    [n |-> 0, data |-> "", eof |-> FALSE, panic |-> FALSE]

ReadAt(node, dstLen, offset) ==
    IF node.kind = "file" THEN FSCardMetaFile_ReadAt(node, dstLen, offset)
    ELSE BaseFSNode_ReadAt(node, dstLen, offset)

----------------------------------------------------------------------------
(* The protocol adapter (trelloFS) *)

\* the filesystem state an operation works on
St == [nodes |-> nodes, inodes |-> inodes, freeInodes |-> freeInodes, byID |-> byID]

Install(st) ==
    /\ nodes' = st.nodes
    /\ inodes' = st.inodes
    /\ freeInodes' = st.freeInodes
    /\ byID' = st.byID

NoAttrs == [Mode |-> "", Nlink |-> 0, Uid |-> 0, Gid |-> 0, Size |-> 0]

NoReply ==
    [op |-> "none", status |-> "ok", pid |-> 1, ino |-> 0, name |-> "",
     dstLen |-> 0, offset |-> 0, refresh |-> "none", query |-> "none",
     added |-> <<>>, child |-> 0, attrs |-> NoAttrs, entries |-> <<>>,
     bytes |-> 0, data |-> "", eof |-> FALSE, resp |-> ApiOk(<<>>)]

Request(op, pid, ino) == [NoReply EXCEPT !.op = op, !.pid = pid, !.ino = ino]

\* op.OpContext.Pid == 0: EINVAL before the request is looked at
Rejected(op) == [NoReply EXCEPT !.op = op, !.pid = 0, !.status = "EINVAL"]

\* the operation returns status to the transport, the tables stay as they are
Return(r) == /\ reply' = r
             /\ UNCHANGED <<nodes, inodes, freeInodes, byID, now, crashed>>

\* a panic in the operation's goroutine, an index out of range, or
\* log.Fatalf: the process is gone
Crash(r, how) == /\ reply' = [r EXCEPT !.status = how]
                 /\ crashed' = TRUE
                 /\ UNCHANGED <<nodes, inodes, freeInodes, byID, now>>

\* the process runs and the last reply has gone back to the kernel
Idle == ~crashed /\ reply = NoReply

\* the transport hands the reply of the finished operation to the kernel
Respond ==
    /\ ~crashed
    /\ reply # NoReply
    /\ reply' = NoReply
    /\ UNCHANGED <<nodes, inodes, freeInodes, byID, now, crashed>>

Pids == {0, 1}

\* the names a lookup asks for under a node of each kind: those the remote
\* service can give a child, and one it cannot
LookupNames(kind, W) ==
    CASE kind = "root" -> {r.Name : r \in W.workspaces} \cup {"cards"}
      [] kind = "workspace" -> {r.Name : r \in W.boards} \cup {"cards"}
      [] kind = "board" -> {"cards", "lists", "B"}
      [] kind = "cardsdir" -> {r.Name : r \in W.cards} \cup {"lists"}
      [] kind = "listsdir" -> {r.Name : r \in W.lists} \cup {"cards"}
      [] kind = "list" -> {r.Name : r \in W.cards} \cup {"lists"}
      [] kind = "card" -> {"DueComplete", "dueComplete", "MemberIDs"}
      [] OTHER -> {"cards"}

KindAt(ino) ==
    IF ino < Len(inodes) /\ InodeAt(inodes, ino) # NIL
    THEN nodes[InodeAt(inodes, ino)].kind ELSE "nil"

\* the answers the remote service can give to the refresh this request
\* triggers; a single dummy when it triggers none
Answers(ino, W) ==
    IF KindAt(ino) # "nil" /\ ShouldUpdate(nodes, InodeAt(inodes, ino), now)
    THEN ResponsesOf(nodes, InodeAt(inodes, ino), W) ELSE NoQuery

\* start offsets a ReadDir request may carry: zero or a continuation offset
DirOffsets(ino) ==
    0..(IF KindAt(ino) = "nil" THEN 0
        ELSE Len(Children(nodes, InodeAt(inodes, ino))))

\* a lookup that would also stamp the child it resolves as refreshed
trelloFS_LookUpInodeStampingChild(pid, parent, name, resp) ==
    /\ Idle
    /\ LET req == [Request("lookup", pid, parent) EXCEPT !.name = name] IN
       IF pid = 0 THEN Return(Rejected(req.op))
       ELSE IF parent >= Len(inodes) THEN Crash(req, "panic")
       ELSE IF InodeAt(inodes, parent) = NIL THEN Crash(req, "fatal")
       ELSE LET n == InodeAt(inodes, parent)
                r == refreshNode(St, n, resp, now)
                child == LookupChild(r.st.nodes, n, name)
                req1 == [req EXCEPT !.refresh = r.outcome, !.query = r.query,
                                    !.added = r.add, !.resp = resp]
            IN  IF r.outcome = "panic" THEN Crash(req1, "panic")
                ELSE /\ Install(IF child = NIL THEN r.st
                                ELSE [r.st EXCEPT
                                        !.nodes = markUpdated(@, child, now)])
                     /\ UNCHANGED <<now, crashed>>
                     /\ reply' =
                          IF child = NIL THEN [req1 EXCEPT !.status = "ENOENT"]
                          ELSE [req1 EXCEPT
                                  !.child = r.st.nodes[child].NodeID,
                                  !.attrs = r.st.nodes[child].NodeAttrs]

trelloFS_LookUpInode(pid, parent, name, resp) ==
    /\ Idle
    /\ LET req == [Request("lookup", pid, parent) EXCEPT !.name = name] IN
       IF pid = 0 THEN Return(Rejected(req.op))
       ELSE IF parent >= Len(inodes) THEN Crash(req, "panic")
       ELSE IF InodeAt(inodes, parent) = NIL THEN Crash(req, "fatal")
       ELSE LET n == InodeAt(inodes, parent)
                r == refreshNode(St, n, resp, now)
                child == LookupChild(r.st.nodes, n, name)
                req1 == [req EXCEPT !.refresh = r.outcome, !.query = r.query,
                                    !.added = r.add, !.resp = resp]
            IN  IF r.outcome = "panic" THEN Crash(req1, "panic")
                ELSE /\ Install(r.st)
                     /\ UNCHANGED <<now, crashed>>
                     /\ reply' =
                          IF child = NIL THEN [req1 EXCEPT !.status = "ENOENT"]
                          ELSE [req1 EXCEPT
                                  !.child = r.st.nodes[child].NodeID,
                                  !.attrs = r.st.nodes[child].NodeAttrs]

\* a get_attributes that brings the node up to date before it answers
trelloFS_GetInodeAttributesRefreshing(pid, ino) ==
    /\ Idle
    /\ LET req == Request("getattr", pid, ino) IN
       IF pid = 0 THEN Return(Rejected(req.op))
       ELSE IF KindAt(ino) = "nil" THEN Crash(req, "panic")
       ELSE \E resp \in Answers(ino, TreeWorld) :
              LET n == InodeAt(inodes, ino)
                  r == refreshNode(St, n, resp, now)
              IN  IF r.outcome = "panic" THEN Crash(req, "panic")
                  ELSE /\ Install(r.st)
                       /\ UNCHANGED <<now, crashed>>
                       /\ reply' = [req EXCEPT !.attrs = r.st.nodes[n].NodeAttrs]

trelloFS_GetInodeAttributes(pid, ino) ==
    /\ Idle
    /\ LET req == Request("getattr", pid, ino) IN
       IF pid = 0 THEN Return(Rejected(req.op))
       ELSE IF KindAt(ino) = "nil" THEN Crash(req, "panic")
       ELSE Return([req EXCEPT !.attrs = nodes[InodeAt(inodes, ino)].NodeAttrs])

\* a set_attributes that accepts the request of a real process
trelloFS_SetInodeAttributesAccepting(pid, ino) ==
    /\ Idle
    /\ LET req == Request("setattr", pid, ino) IN
       IF pid = 0 THEN Return(Rejected(req.op))
       ELSE Return(req)

trelloFS_SetInodeAttributes(pid, ino) ==
    /\ Idle
    /\ LET req == Request("setattr", pid, ino) IN
       IF pid = 0 THEN Return(Rejected(req.op))
       ELSE Return([req EXCEPT !.status = "EIO"])

trelloFS_ReadDir(ino, dstLen, offset, resp) ==
    /\ Idle
    /\ LET req == [Request("readdir", 1, ino) EXCEPT
                     !.dstLen = dstLen, !.offset = offset] IN
       IF ino >= Len(inodes) THEN Crash(req, "panic")
       ELSE IF InodeAt(inodes, ino) = NIL
       THEN Return([req EXCEPT !.status = "ENOENT"])
       ELSE LET n == InodeAt(inodes, ino)
                r == refreshNode(St, n, resp, now)
                d == ReadDir(r.st.nodes, n, dstLen, offset)
                req1 == [req EXCEPT !.refresh = r.outcome, !.query = r.query,
                                    !.added = r.add, !.resp = resp]
            IN  IF r.outcome = "panic" \/ d.panic THEN Crash(req1, "panic")
                ELSE /\ Install(r.st)
                     /\ UNCHANGED <<now, crashed>>
                     /\ reply' = [req1 EXCEPT !.entries = d.entries,
                                              !.bytes = SizeOf(d.entries)]

trelloFS_ReadFile(pid, ino, dstLen, offset) ==
    /\ Idle
    /\ LET req == [Request("read", pid, ino) EXCEPT
                     !.dstLen = dstLen, !.offset = offset] IN
       IF pid = 0 THEN Return(Rejected(req.op))
       ELSE IF KindAt(ino) = "nil" THEN Crash(req, "panic")
       ELSE LET d == ReadAt(nodes[InodeAt(inodes, ino)], dstLen, offset) IN
            IF d.panic THEN Crash(req, "panic")
            ELSE Return([req EXCEPT !.bytes = d.n, !.data = d.data, !.eof = d.eof])

\* time passes between two requests
Tick ==
    /\ Idle
    /\ now + TickSecs <= EndTime
    /\ now' = now + TickSecs
    /\ UNCHANGED <<nodes, inodes, freeInodes, byID, crashed, reply>>

\* transport threads: the server runs every request in a goroutine of its own
NumThreads == 2
Threads == 1..NumThreads

\* the zero value of the sync.Mutex: nobody holds it
NoThread == 0

\* a thread that is not inside any operation
Outside == [at |-> "outside", op |-> "none", ino |-> 0, name |-> ""]

\* no listing is under way
NoListing == [ino |-> 0, dstLen |-> 0, next |-> 0, pages |-> <<>>, done |-> FALSE]

\* NewTrelloFS: inodes has RootInodeID+1 slots, slot 0 nil, slot 1 the root
Init ==
    /\ \E uid \in Uids, gid \in Gids : nodes = <<initRoot(uid, gid)>>
    /\ inodes = <<NIL, 1>>
    /\ freeInodes = <<>>
    /\ byID = EmptyMap
    /\ now = StartTime
    /\ crashed = FALSE
    /\ reply = NoReply
    /\ ls = NoListing
    /\ lock = NoThread
    /\ pc = [t \in Threads |-> Outside]

\* inode numbers the transport may name: those of the table and one beyond
Inos == 0..Len(inodes)

\* the destination buffer the transport hands to ReadDir, in bytes: room for
\* one entry with a short name, not for two
TreeDirBuf == DirentHeader + 2 * DirentAlignment

\* The tree specification: every operation, on flat snapshots.
Next ==
    \/ \E pid \in Pids, parent \in Inos :
         \E name \in LookupNames(KindAt(parent), TreeWorld),
            resp \in Answers(parent, TreeWorld) :
           trelloFS_LookUpInode(pid, parent, name, resp) /\ UNCHANGED <<ls, lock, pc>>
    \/ \E pid \in Pids, ino \in Inos :
         trelloFS_GetInodeAttributes(pid, ino) /\ UNCHANGED <<ls, lock, pc>>
    \/ \E pid \in Pids, ino \in Inos :
         trelloFS_SetInodeAttributes(pid, ino) /\ UNCHANGED <<ls, lock, pc>>
    \/ \E ino \in Inos :
         \E offset \in DirOffsets(ino), resp \in Answers(ino, TreeWorld) :
           trelloFS_ReadDir(ino, TreeDirBuf, offset, resp) /\ UNCHANGED <<ls, lock, pc>>
    \/ \E pid \in Pids, ino \in Inos :
         trelloFS_ReadFile(pid, ino, 1, 0) /\ UNCHANGED <<ls, lock, pc>>
    \/ Tick /\ UNCHANGED <<ls, lock, pc>>
    \/ Respond /\ UNCHANGED <<ls, lock, pc>>

Spec == Init /\ [][Next]_vars

\* the destination buffer of a listing of a card's directory: room for a
\* file of every field
CardDirBuf == Len(CardFields) * (DirentHeader + 2 * DirentAlignment)

\* The card specification: the path down to one card, and reads of its
\* field files with every buffer length and offset.
NextCard ==
    \/ \E parent \in Inos :
         \E name \in LookupNames(KindAt(parent), CardWorld),
            resp \in Answers(parent, CardWorld) :
           trelloFS_LookUpInode(1, parent, name, resp) /\ UNCHANGED <<ls, lock, pc>>
    \/ \E ino \in Inos :
         \E resp \in Answers(ino, CardWorld) :
           trelloFS_ReadDir(ino, CardDirBuf, 0, resp) /\ UNCHANGED <<ls, lock, pc>>
    \/ \E ino \in Inos, dstLen \in 1..MaxBuf, offset \in 0..MaxOffset :
         trelloFS_ReadFile(1, ino, dstLen, offset) /\ UNCHANGED <<ls, lock, pc>>
    \/ Respond /\ UNCHANGED <<ls, lock, pc>>

SpecCard == Init /\ [][NextCard]_vars

\* what the client has after one more page: it resumes at the offset of the
\* last entry it got, and stops at an empty page
Listed(l, r) ==
    [l EXCEPT !.pages = Append(@, r.entries),
              !.next = IF r.entries = <<>> THEN @
                       ELSE r.entries[Len(r.entries)].Offset,
              !.done = (r.entries = <<>>)]

\* the client opens a directory and reads its first page
ListStart(ino, dstLen, resp) ==
    /\ ls = NoListing \/ ls.done
    /\ trelloFS_ReadDir(ino, dstLen, 0, resp)
    /\ ls' = Listed([NoListing EXCEPT !.ino = ino, !.dstLen = dstLen], reply')
    /\ UNCHANGED <<lock, pc>>

\* the client reads the next page
ListNext(resp) ==
    /\ ls # NoListing /\ ~ls.done
    /\ trelloFS_ReadDir(ls.ino, ls.dstLen, ls.next, resp)
    /\ ls' = Listed(ls, reply')
    /\ UNCHANGED <<lock, pc>>

\* destination buffers of a listing: room for one long entry, for a short
\* and a long one, for two long ones
ListBufs ==
    {DirentLen("Boardname"), DirentLen("B") + DirentLen("Boardname"),
     2 * DirentLen("Boardname")}

\* the directories the client lists: the root and the workspace
ListedInos ==
    {ino \in 1..(Len(inodes) - 1) : KindAt(ino) \in {"root", "workspace"}}

\* The listing specification: a client pages through the root and through
\* a workspace of up to three boards.
NextLs ==
    \/ \E name \in LookupNames("root", ListingWorld),
          resp \in Answers(RootInodeID, ListingWorld) :
         trelloFS_LookUpInode(1, RootInodeID, name, resp) /\ UNCHANGED <<ls, lock, pc>>
    \/ \E ino \in ListedInos, dstLen \in ListBufs :
         \E resp \in Answers(ino, ListingWorld) : ListStart(ino, dstLen, resp)
    \/ \E resp \in Answers(ls.ino, ListingWorld) : ListNext(resp)
    \/ Respond /\ UNCHANGED <<ls, lock, pc>>

SpecLs == Init /\ [][NextLs]_vars

\* the refresh interval of the workspace elapses between two requests
\* (time.Since(lastUpdate) reaches 60 seconds), once
Wait ==
    /\ Idle
    /\ now = StartTime
    /\ now' = now + WorkspaceInterval
    /\ UNCHANGED <<nodes, inodes, freeInodes, byID, crashed, reply>>

\* The paging specification: the listing client of above, and time that
\* passes while a listing is under way, so that the call for a later page
\* refreshes the directory again.
NextPages ==
    \/ \E name \in LookupNames("root", ListingWorld),
          resp \in Answers(RootInodeID, ListingWorld) :
         trelloFS_LookUpInode(1, RootInodeID, name, resp) /\ UNCHANGED <<ls, lock, pc>>
    \/ \E ino \in ListedInos, dstLen \in ListBufs :
         \E resp \in Answers(ino, ListingWorld) : ListStart(ino, dstLen, resp)
    \/ \E resp \in Answers(ls.ino, ListingWorld) : ListNext(resp)
    \/ Wait /\ UNCHANGED <<ls, lock, pc>>
    \/ Respond /\ UNCHANGED <<ls, lock, pc>>

SpecPages == Init /\ [][NextPages]_vars

----------------------------------------------------------------------------
(* A board with two lists *)

\* The service as the lists specification sees it: one board with two
\* lists, one card on each.
ListsWorld ==
    [maxRecs |-> 2,
     workspaces |-> {WorkspaceRec("w1", "W")},
     boards |-> {BoardRec("b1", "B")},
     lists |-> {ListRec("l1", "L"), ListRec("l2", "M")},
     cards |-> {[FlatCard("c1", "C") EXCEPT !.ListID = "l1"],
                [FlatCard("c2", "D") EXCEPT !.ListID = "l2"]}]

\* GET /lists/<id>/cards answers with the cards of the list whose id is in
\* the endpoint; every other query answers as in Answers
AnswersByList(ino, W) ==
    IF KindAt(ino) = "list" /\ ShouldUpdate(nodes, InodeAt(inodes, ino), now)
    THEN Responses({c \in W.cards :
                       c.ListID = nodes[InodeAt(inodes, ino)].List.ID},
                   W.maxRecs)
    ELSE Answers(ino, W)

\* the directories above a card
AboveCards ==
    {ino \in Inos : KindAt(ino) \in {"root", "workspace", "board", "cardsdir",
                                     "listsdir", "list"}}

\* The lists specification: the path down to the two lists of a board and
\* the listing of each of them.
NextLists ==
    \/ \E parent \in AboveCards :
         \E name \in LookupNames(KindAt(parent), ListsWorld),
            resp \in AnswersByList(parent, ListsWorld) :
           trelloFS_LookUpInode(1, parent, name, resp)
           /\ UNCHANGED <<ls, lock, pc>>
    \/ \E ino \in AboveCards :
         \E resp \in AnswersByList(ino, ListsWorld) :
           trelloFS_ReadDir(ino, TreeDirBuf, 0, resp)
           /\ UNCHANGED <<ls, lock, pc>>
    \/ Respond /\ UNCHANGED <<ls, lock, pc>>

SpecLists == Init /\ [][NextLists]_vars

----------------------------------------------------------------------------
(* Requests in flight on several threads *)

\* The service as the concurrent specification sees it: one workspace with
\* one board, so that the tree has a path of directories and stays small.
ConcWorld ==
    [maxRecs |-> 1,
     workspaces |-> {WorkspaceRec("w1", "W")},
     boards |-> {BoardRec("b1", "B")},
     lists |-> {}, cards |-> {}]

\* operations that start with anything but fs.lock.Lock()
LockingAllButReadFile == {"lookup", "getattr", "readdir"}

\* the operations whose body is "fs.lock.Lock(); defer fs.lock.Unlock(); ..."
Locking == {"lookup", "getattr", "readdir", "read"}

\* the thread is past the point where its operation takes the lock and has
\* not returned
InBody(t) == pc[t].at \in {"in", "waiting"}

\* the kernel hands a request with a non-zero pid to thread t; the thread
\* has not reached fs.lock.Lock() yet
Call(t, op, ino, name) ==
    /\ Idle
    /\ pc[t] = Outside
    /\ pc' = [pc EXCEPT ![t] = [at |-> "called", op |-> op, ino |-> ino,
                                name |-> name]]
    /\ UNCHANGED <<nodes, inodes, freeInodes, byID, now, crashed, reply, ls,
                   lock>>

\* fs.lock.Lock(): blocks while another thread holds the lock
Enter(t) ==
    /\ Idle
    /\ pc[t].at = "called"
    /\ IF pc[t].op \in Locking THEN lock = NoThread /\ lock' = t
       ELSE lock' = lock
    /\ pc' = [pc EXCEPT ![t].at = "in"]
    /\ UNCHANGED <<nodes, inodes, freeInodes, byID, now, crashed, reply, ls>>

\* the operation's refresh is due and asks the remote service: the thread
\* sits in ctx.ApiGet until the answer or an error comes back
NeedsQuery(t) ==
    /\ pc[t].op \in {"lookup", "readdir"}
    /\ KindAt(pc[t].ino) # "nil"
    /\ ShouldUpdate(nodes, InodeAt(inodes, pc[t].ino), now)
    /\ QueryOf(nodes, InodeAt(inodes, pc[t].ino)) # "none"

StartQuery(t) ==
    /\ Idle
    /\ pc[t].at = "in"
    /\ NeedsQuery(t)
    /\ pc' = [pc EXCEPT ![t].at = "waiting"]
    /\ UNCHANGED <<nodes, inodes, freeInodes, byID, now, crashed, reply, ls,
                   lock>>

\* the body of the operation thread t is in, with the remote answer resp
Body(t, resp) ==
    CASE pc[t].op = "lookup" ->
           trelloFS_LookUpInode(1, pc[t].ino, pc[t].name, resp)
      [] pc[t].op = "getattr" -> trelloFS_GetInodeAttributes(1, pc[t].ino)
      [] pc[t].op = "readdir" ->
           trelloFS_ReadDir(pc[t].ino, TreeDirBuf, 0, resp)
      [] pc[t].op = "read" -> trelloFS_ReadFile(1, pc[t].ino, 1, 0)

\* the rest of the operation up to its return; the deferred Unlock runs on
\* return, a process that has terminated releases nothing
Finish(t) ==
    /\ \/ pc[t].at = "waiting"
       \/ pc[t].at = "in" /\ ~NeedsQuery(t)
    /\ \E resp \in Answers(pc[t].ino, ConcWorld) : Body(t, resp)
    /\ IF crashed' THEN UNCHANGED <<lock, pc>>
       ELSE /\ lock' = IF pc[t].op \in Locking THEN NoThread ELSE lock
            /\ pc' = [pc EXCEPT ![t] = Outside]
    /\ UNCHANGED ls

\* a request with pid 0 returns EINVAL before fs.lock.Lock()
RejectedCall(t, op, ino) ==
    /\ pc[t] = Outside
    /\ CASE op = "lookup" -> trelloFS_LookUpInode(0, ino, "cards", ApiOk(<<>>))
         [] op = "getattr" -> trelloFS_GetInodeAttributes(0, ino)
         [] op = "read" -> trelloFS_ReadFile(0, ino, 1, 0)
    /\ UNCHANGED <<ls, lock, pc>>

\* The concurrent specification: the transport's threads call the four
\* locking operations on any inode, interleaved step by step.
NextConc ==
    \/ \E t \in Threads, op \in {"lookup", "getattr", "readdir", "read"},
          ino \in Inos :
         \E name \in IF op = "lookup" THEN LookupNames(KindAt(ino), ConcWorld)
                     ELSE {""} :
           Call(t, op, ino, name)
    \/ \E t \in Threads, op \in {"lookup", "getattr", "read"}, ino \in Inos :
         RejectedCall(t, op, ino)
    \/ \E t \in Threads : Enter(t)
    \/ \E t \in Threads : StartQuery(t)
    \/ \E t \in Threads : Finish(t)
    \/ Respond /\ UNCHANGED <<ls, lock, pc>>

SpecConc == Init /\ [][NextConc]_vars

\* The concurrent specification under fair scheduling: the transport
\* delivers every reply, a goroutine blocked in fs.lock.Lock() gets the lock
\* when it is free again and again (sync.Mutex hands the lock to a starving
\* waiter), and a goroutine inside its operation goes on, every remote query
\* returning or failing. A step of a goroutine waits here for the reply of
\* another operation to be delivered, which the code does not, hence the
\* strong fairness of the steps.
SpecConcFair ==
    /\ SpecConc
    /\ WF_vars(Respond /\ UNCHANGED <<ls, lock, pc>>)
    /\ \A t \in Threads : SF_vars(Enter(t) \/ StartQuery(t) \/ Finish(t))

----------------------------------------------------------------------------
(* Properties *)

Refs == 1..Len(nodes)

\* the node an inode id names
NodeAt(ino) == nodes[InodeAt(inodes, ino)]

\* the last step was a lookup or a listing that reached the node
Reached ==
    /\ reply.op \in {"lookup", "readdir"}
    /\ reply.status \in {"ok", "ENOENT"}
    /\ KindAt(reply.ino) # "nil"

\* C1 (identity stability): once a node has an inode id, every step leaves
\* its inode id and its name as they are, and the inode table keeps naming
\* it under that id; this includes the refreshes of its parent in which the
\* remote source reports its record under another name or at another place.
C1_IdentityStability ==
    [][\A n \in Refs :
          nodes[n].NodeID # 0 =>
            /\ n <= Len(nodes')
            /\ nodes'[n].NodeID = nodes[n].NodeID
            /\ nodes'[n].name = nodes[n].name
            /\ InodeAt(inodes', nodes[n].NodeID) = n]_vars

\* a successful refresh has just reported the record of a child that was
\* there before, under a name the child does not have
C1_RenamedRecordSeen ==
    /\ Reached /\ reply.refresh = "ok"
    /\ KindAt(reply.ino) = "cardsdir"
    /\ LET kids == Children(nodes, InodeAt(inodes, reply.ino)) IN
       \E i \in 1..Len(kids), j \in 1..Len(reply.resp.recs) :
          /\ \A a \in 1..Len(reply.added) : reply.added[a] # kids[i]
          /\ nodes[kids[i]].TrelloID = reply.resp.recs[j].ID
          /\ nodes[kids[i]].name # reply.resp.recs[j].Name
          /\ i # j

\* the refresh interval of each directory variant that queries the remote
IntervalOf(kind) ==
    CASE kind = "root" -> RootInterval
      [] kind = "workspace" -> WorkspaceInterval
      [] kind = "cardsdir" -> CardsDirInterval
      [] kind = "listsdir" -> ListsDirInterval
      [] kind = "list" -> ListInterval

RemoteBacked == {"root", "workspace", "cardsdir", "listsdir", "list"}

\* C4 (idempotent refresh): a lookup or a listing on a root, workspace,
\* cards collection, lists collection or list that was refreshed
\* successfully less than its interval ago makes no remote query, creates no
\* node and allocates no inode id.
C4_IdempotentRefresh ==
    [][(/\ reply = NoReply
        /\ reply'.op \in {"lookup", "readdir"}
        /\ KindAt(reply'.ino) \in RemoteBacked
        /\ NodeAt(reply'.ino).lastUpdate # ZeroTime
        /\ now - NodeAt(reply'.ino).lastUpdate
              < IntervalOf(KindAt(reply'.ino)))
       => /\ reply'.query = "none"
          /\ reply'.added = <<>>
          /\ nodes' = nodes
          /\ inodes' = inodes
          /\ byID' = byID]_vars

\* a lists collection answered without a refresh, at a later time than its
\* last refresh and within its interval
C4_SecondAccessWithinInterval ==
    /\ Reached /\ reply.refresh = "fresh"
    /\ KindAt(reply.ino) = "listsdir"
    /\ NodeAt(reply.ino).lastUpdate # ZeroTime
    /\ now > NodeAt(reply.ino).lastUpdate
    /\ Len(Children(nodes, InodeAt(inodes, reply.ino))) > 0

\* C5 (a failed refresh changes nothing): a step whose refresh fails on the
\* remote query leaves every node (child sequences, indices, last-refresh
\* stamps), the inode table, the free list and the remote-key index as they
\* were, so every child keeps resolving under its old inode id.
C5_FailedRefreshChangesNothing ==
    [][(reply = NoReply /\ reply'.refresh = "failed")
       => /\ nodes' = nodes
          /\ inodes' = inodes
          /\ freeInodes' = freeInodes
          /\ byID' = byID
          /\ \A n \in Refs : InodeAt(inodes', nodes[n].NodeID) = n]_vars

\* the refresh of a directory that already has children has just failed
C5_FailedOverChildren ==
    /\ Reached /\ reply.refresh = "failed"
    /\ NodeAt(reply.ino).lastUpdate # ZeroTime
    /\ Len(Children(nodes, InodeAt(inodes, reply.ino))) > 0

\* C6 (a failed refresh fails the call): when the refresh a lookup or a
\* listing triggers fails on the remote query, the operation does not
\* report success, and the process keeps running.
C6_FailedRefreshFailsCall ==
    (reply.op \in {"lookup", "readdir"} /\ reply.refresh = "failed")
    => (reply.status # "ok" /\ ~crashed)

\* C10 (cards held once): no card node occurs at two indices of the child
\* sequence of a board's cards collection, by reference, remote id or
\* inode id.
C10_CardsHeldOnce ==
    \A b \in Refs :
       nodes[b].kind = "board" =>
         \A i, j \in 1..Len(nodes[b].Cards) :
            i # j =>
              /\ nodes[b].Cards[i] # nodes[b].Cards[j]
              /\ nodes[nodes[b].Cards[i]].TrelloID # nodes[nodes[b].Cards[j]].TrelloID
              /\ nodes[nodes[b].Cards[i]].NodeID # nodes[nodes[b].Cards[j]].NodeID

\* C2 (shared card identity): for every card a list holds, and the board's
\* cards collection with it, the lookup of the card's name under cards/ and
\* the lookup of it under the list resolve to one and the same node (hence
\* the same inode id, attributes and field files).
C2_SharedCardIdentity ==
    \A l \in Refs :
       nodes[l].kind = "list" =>
         LET b == nodes[l].BoardNode IN
         \A i \in 1..Len(nodes[l].Cards) :
            LET c == nodes[l].Cards[i] IN
            (\E j \in 1..Len(nodes[b].Cards) : nodes[b].Cards[j] = c)
            => LookupChild(nodes, nodes[b].MetaCardsDir, nodes[c].name)
                 = LookupChild(nodes, l, nodes[c].name)

\* the field files of a card whose name is the field's Go name or json name
FilesOf(c, field) ==
    {nodes[c].MetaFiles[m] : m \in
       {k \in 1..Len(nodes[c].MetaFiles) :
          nodes[nodes[c].MetaFiles[k]].name \in {field.Name, field.Tag}}}

\* C9 (field rendering): for every card whose field files have been made,
\* each text field has a file holding the text verbatim, each boolean field
\* a file holding "true" or "false", each string-list field a file holding
\* every element followed by a newline, and a field of any other kind has
\* no file.
C9_FieldRendering ==
    \A c \in Refs :
       (nodes[c].kind = "card" /\ nodes[c].MetaFiles # <<>>) =>
         \A f \in 1..Len(CardFields) :
            LET field == CardFields[f]
                val == nodes[c].Card[field.Name]
            IN  CASE field.Type = "string" ->
                       \E m \in FilesOf(c, field) : nodes[m].contents = val
                  [] field.Type = "bool" ->
                       \E m \in FilesOf(c, field) :
                          nodes[m].contents = IF val THEN "true" ELSE "false"
                  [] field.Type = "[]string" ->
                       \E m \in FilesOf(c, field) :
                          nodes[m].contents = JoinLines(val)
                  [] OTHER -> FilesOf(c, field) = {}

\* C8 (end-to-end scenario): with card C (c1, dueComplete = false) on list L
\* of board B of workspace W, no lookup under the card ends in a fatal
\* error, the card resolves to one node under cards/ and under lists/L, the
\* lookup of dueComplete under the card succeeds, and reading that file
\* from offset 0 yields "false".
C8_EndToEndScenario ==
    \A c \in Refs :
       (/\ nodes[c].kind = "card" /\ nodes[c].TrelloID = "c1"
        /\ nodes[c].name = "C" /\ ~nodes[c].Card.DueComplete)
       => /\ (reply.op = "lookup" /\ reply.ino = nodes[c].NodeID)
               => (~crashed /\ reply.status \in {"ok", "ENOENT"})
          /\ (reply.op = "lookup" /\ reply.ino = nodes[c].NodeID
                /\ reply.name = "dueComplete")
               => (reply.status = "ok"
                   /\ NodeAt(reply.child).contents = "false")
          /\ \A l \in Refs :
                (nodes[l].kind = "list" /\ nodes[l].Cards # <<>>)
                => LookupChild(nodes, l, "C")
                     = LookupChild(nodes, nodes[nodes[l].BoardNode].MetaCardsDir, "C")
          /\ (/\ reply.op = "read" /\ KindAt(reply.ino) = "file"
              /\ NodeAt(reply.ino).name \in {"dueComplete", "DueComplete"}
              /\ reply.offset = 0 /\ reply.dstLen >= Len("false"))
               => (reply.status = "ok" /\ reply.data = "false")

\* C7 (read boundary): a read of a field file of content length L returns
\* without a fault; at offset L and at any offset beyond L it returns zero
\* bytes and signals end-of-data; at offset 0 with a buffer longer than L it
\* returns exactly the L content bytes and signals end-of-data.
C7_ReadBoundary ==
    (reply.op = "read" /\ KindAt(reply.ino) = "file") =>
      LET contents == NodeAt(reply.ino).contents IN
      /\ reply.status = "ok" /\ ~crashed
      /\ reply.offset >= Len(contents)
           => (reply.bytes = 0 /\ reply.data = "" /\ reply.eof)
      /\ (reply.offset = 0 /\ reply.dstLen > Len(contents))
           => (/\ reply.bytes = Len(contents)
               /\ reply.data = contents
               /\ reply.eof)

\* a non-empty field file has just been read beyond its last byte
C7_ReadBeyondEnd ==
    /\ reply.op = "read" /\ KindAt(reply.ino) = "file"
    /\ Len(NodeAt(reply.ino).contents) > 0
    /\ reply.offset = Len(NodeAt(reply.ino).contents) + 1

\* the entries of the children at indices from..(from + k - 1), each with
\* the index after its own as continuation offset
EntriesOf(kids, from, k) ==
    [i \in 1..k |->
       [Name |-> nodes[kids[from + i]].name,
        Inode |-> nodes[kids[from + i]].NodeID,
        Type |-> "DT_Directory", Offset |-> from + i]]

RECURSIVE SumLen(_, _, _)
SumLen(kids, from, k) ==
    IF k = 0 THEN 0
    ELSE SumLen(kids, from, k - 1) + DirentLen(nodes[kids[from + k]].name)

\* how many of the children from index from on fit into dstLen bytes
Fits(kids, from, dstLen) ==
    LET ks == {k \in 0..(Len(kids) - from) : SumLen(kids, from, k) <= dstLen}
    IN  CHOOSE k \in ks : \A j \in ks : j <= k

RECURSIVE Concat(_)
Concat(pages) == IF pages = <<>> THEN <<>> ELSE Head(pages) \o Concat(Tail(pages))

\* every listing call writes the children from its start index on, as many
\* as the buffer holds, in sequence order, the entry of index i with
\* continuation offset i + 1
PageIsNextChildren ==
    (reply.op = "readdir" /\ reply.status = "ok" /\ KindAt(reply.ino) # "nil") =>
      LET kids == Children(nodes, InodeAt(inodes, reply.ino)) IN
      reply.offset <= Len(kids) =>
        reply.entries
          = EntriesOf(kids, reply.offset, Fits(kids, reply.offset, reply.dstLen))

\* when the client has read the last page, its pages put together are the
\* whole child sequence, each child once and in order
ListingComplete ==
    (ls' # ls /\ ls'.done) =>
      LET kids == Children(nodes', InodeAt(inodes', ls'.ino)) IN
      Concat(ls'.pages) = [i \in 1..Len(kids) |->
                             [Name |-> nodes'[kids[i]].name,
                              Inode |-> nodes'[kids[i]].NodeID,
                              Type |-> "DT_Directory", Offset |-> i]]

\* C3 (pagination correctness): a listing call at start index 0 with a
\* buffer that holds K of the N children writes exactly the children
\* 0..K-1 in order with continuation offsets 1..K, a call at start index K
\* writes the children from K on, and the pages of a client that always
\* resumes at the last returned offset concatenate to the full child
\* sequence, nothing skipped and nothing repeated.
C3_PaginationCorrectness == []PageIsNextChildren /\ [][ListingComplete]_vars

\* a client has listed three boards in three calls: two entries, then
\* one, then the empty page
C3_ListedInPages ==
    /\ ls.done /\ Len(ls.pages) = 3
    /\ Len(ls.pages[1]) = 2 /\ Len(ls.pages[2]) = 1
    /\ KindAt(ls.ino) = "workspace"
    /\ Len(Children(nodes, InodeAt(inodes, ls.ino))) = 3

\* the child sequence of a directory, empty for a board before its first
\* refresh
Kids(h, n) ==
    IF h[n].kind = "board" /\ h[n].MetaCardsDir = NIL THEN <<>>
    ELSE Children(h, n)

\* C11 (sibling names are unique): no directory's child sequence holds two
\* different nodes with the same name; of two records with different ids
\* and one name under one parent, only the first becomes a child.
C11_SiblingNamesUnique ==
    \A n \in Refs :
       \A i, j \in 1..Len(Kids(nodes, n)) :
          Kids(nodes, n)[i] # Kids(nodes, n)[j]
          => nodes[Kids(nodes, n)[i]].name # nodes[Kids(nodes, n)[j]].name

\* C13 (no removal): every step leaves each child of each directory at its
\* index, with its inode id, named by the inode table, and resolvable by its
\* name if it was; child sequences only grow at the end.
C13_NoRemoval ==
    [][\A n \in Refs :
          LET old == Kids(nodes, n)
              new == Kids(nodes', n)
          IN  /\ Len(old) <= Len(new)
              /\ \A i \in 1..Len(old) :
                    /\ new[i] = old[i]
                    /\ nodes'[old[i]].NodeID = nodes[old[i]].NodeID
                    /\ InodeAt(inodes', nodes[old[i]].NodeID) = old[i]
                    /\ LookupChild(nodes, n, nodes[old[i]].name) = old[i]
                         => LookupChild(nodes', n, nodes[old[i]].name) = old[i]]_vars

\* a cards collection has just been refreshed successfully by a query that
\* no longer reports one of the cards it held before
C13_RecordGone ==
    /\ Reached /\ reply.refresh = "ok"
    /\ KindAt(reply.ino) = "cardsdir"
    /\ LET kids == Children(nodes, InodeAt(inodes, reply.ino)) IN
       \E i \in 1..Len(kids) :
          /\ \A a \in 1..Len(reply.added) : reply.added[a] # kids[i]
          /\ \A j \in 1..Len(reply.resp.recs) :
                reply.resp.recs[j].ID # nodes[kids[i]].TrelloID

\* what lookup owes its caller on the directories in kinds: the refresh of
\* the parent exactly when it is due, no fault, and then the parent's child
\* of that name with its inode id and attributes, or "no such entry"
LookupAnswers(kinds) ==
    (/\ reply = NoReply /\ reply'.op = "lookup"
     /\ KindAt(reply'.ino) \in kinds)
    => LET n == InodeAt(inodes, reply'.ino)
           c == LookupChild(nodes', n, reply'.name)
       IN  /\ ~crashed'
           /\ ShouldUpdate(nodes, n, now) <=> reply'.refresh \in {"ok", "failed"}
           /\ IF c = NIL THEN reply'.status = "ENOENT"
              ELSE /\ reply'.status = "ok"
                   /\ reply'.child = nodes'[c].NodeID
                   /\ reply'.attrs = nodes'[c].NodeAttrs
                   /\ reply'.child # 0
                   /\ InodeAt(inodes', reply'.child) = c

\* C14 (lookup): a lookup on a directory of any variant refreshes the
\* parent if it is due and then returns the inode id and the attributes of
\* the parent's child of that name, or "no such entry"; a returned id is not
\* 0 and the inode table holds the returned child at that id.
C14_Lookup ==
    [][LookupAnswers({"root", "workspace", "board", "cardsdir", "listsdir",
                      "list", "card"})]_vars

\* C15: a read_file request naming a registered inode that is not a field
\* file (a directory) never comes back as a successful read
C15_ReadFileOnDirectoryIsFatal ==
    (reply.op = "read" /\ reply.pid # 0
       /\ KindAt(reply.ino) \notin {"nil", "file"})
    => reply.status # "ok"

\* C16: a lookup, get_attributes or read_directory request naming an inode
\* id with no registered node, inside the table or beyond its end, is
\* answered "no such entry" and the process keeps running
C16_UnknownInodeIsNoEntry ==
    (reply.op \in {"lookup", "getattr", "readdir"} /\ reply.pid # 0
       /\ KindAt(reply.ino) = "nil")
    => (reply.status = "ENOENT" /\ ~crashed)

\* C17: inode id 1 holds the root node in every state, slot 0 holds nothing,
\* every other node that has an id has one above 1, and neither 0 nor 1 is
\* on the free stack
C17_RootInodeReserved ==
    /\ Len(inodes) > RootInodeID
    /\ InodeAt(inodes, 0) = NIL
    /\ InodeAt(inodes, RootInodeID) # NIL
    /\ NodeAt(RootInodeID).kind = "root"
    /\ NodeAt(RootInodeID).NodeID = RootInodeID
    /\ \A n \in Refs : nodes[n].kind # "root" => nodes[n].NodeID \notin {1}
    /\ \A n \in Refs : nodes[n].NodeID # 0 => InodeAt(inodes, nodes[n].NodeID) = n
    /\ \A i \in 2..Len(inodes) : inodes[i] # NIL => nodes[inodes[i]].NodeID = i - 1
    /\ \A i \in 1..Len(freeInodes) : freeInodes[i] \notin {0, 1}
    /\ reply.op \in {"lookup", "readdir"} =>
          \A i \in 1..Len(reply.added) : nodes[reply.added[i]].NodeID > 1

\* a refresh has allocated inode ids for new nodes
C17_IdsAllocated ==
    /\ Reached
    /\ reply.refresh = "ok"
    /\ Len(reply.added) > 1
    /\ Len(inodes) > RootInodeID + 2

\* the two entries a board lists, in listing order
BoardEntries(h, b) ==
    << [Name |-> "cards", Inode |-> h[h[b].MetaCardsDir].NodeID,
        Type |-> "DT_Directory", Offset |-> 1],
       [Name |-> "lists", Inode |-> h[h[b].MetaListsDir].NodeID,
        Type |-> "DT_Directory", Offset |-> 2] >>

\* the longest prefix of entries that fits into dstLen bytes
RECURSIVE FittingPrefix(_, _)
FittingPrefix(entries, dstLen) ==
    IF entries = <<>> \/ DirentLen(Head(entries).Name) > dstLen THEN <<>>
    ELSE <<Head(entries)>>
         \o FittingPrefix(Tail(entries), dstLen - DirentLen(Head(entries).Name))

\* what a lookup or read_directory request on board b answers and leaves
BoardAnswers(b) ==
    (reply = NoReply /\ reply'.op \in {"lookup", "readdir"}
       /\ nodes[b].NodeID # 0 /\ reply'.ino = nodes[b].NodeID)
    => LET cards == nodes'[b].MetaCardsDir
           lists == nodes'[b].MetaListsDir
       IN  /\ ~crashed'
           /\ cards # NIL /\ lists # NIL /\ cards # lists
           /\ nodes'[cards].kind = "cardsdir" /\ nodes'[cards].name = "cards"
           /\ nodes'[lists].kind = "listsdir" /\ nodes'[lists].name = "lists"
           /\ nodes'[cards].NodeID > RootInodeID
           /\ nodes'[lists].NodeID > RootInodeID
           /\ nodes'[cards].NodeID # nodes'[lists].NodeID
           /\ reply'.added = IF nodes[b].MetaCardsDir = NIL
                             THEN <<cards, lists>> ELSE <<>>
           /\ Len(nodes') = Len(nodes) + Len(reply'.added)
           /\ reply'.op = "lookup" =>
                CASE reply'.name = "cards" ->
                       reply'.status = "ok" /\ reply'.child = nodes'[cards].NodeID
                  [] reply'.name = "lists" ->
                       reply'.status = "ok" /\ reply'.child = nodes'[lists].NodeID
                  [] OTHER -> reply'.status = "ENOENT"
           /\ reply'.op = "readdir" =>
                /\ reply'.status = "ok"
                /\ reply'.entries =
                     FittingPrefix(SubSeq(BoardEntries(nodes', b),
                                          reply'.offset + 1, 2), reply'.dstLen)

\* C18: a board's first refresh creates exactly the cards and lists
\* collections with inode ids; every later step leaves the board with the
\* same two nodes under the same ids and creates nothing; lookup of "cards"
\* and "lists" answers those ids, any other name is "no such entry", and
\* read_directory lists cards, then lists
C18_BoardSubCollectionsOnce ==
    [][\A b \in Refs :
         nodes[b].kind = "board" =>
           /\ (nodes[b].MetaCardsDir = NIL) <=> (nodes[b].MetaListsDir = NIL)
           /\ nodes[b].MetaCardsDir # NIL =>
                /\ nodes'[b].MetaCardsDir = nodes[b].MetaCardsDir
                /\ nodes'[b].MetaListsDir = nodes[b].MetaListsDir
                /\ nodes'[nodes[b].MetaCardsDir].NodeID
                     = nodes[nodes[b].MetaCardsDir].NodeID
                /\ nodes'[nodes[b].MetaListsDir].NodeID
                     = nodes[nodes[b].MetaListsDir].NodeID
           /\ BoardAnswers(b)]_vars

\* a board that already has its two collections has been refreshed again
C18_BoardRefreshedAgain ==
    /\ Reached
    /\ KindAt(reply.ino) = "board"
    /\ reply.refresh = "ok"
    /\ reply.added = <<>>
    /\ NodeAt(reply.ino).MetaCardsDir # NIL
    /\ now > NodeAt(reply.ino).lastUpdate

\* the refresh interval the specification gives each kind of directory
ClaimedInterval(kind) ==
    CASE kind \in {"root", "workspace", "listsdir"} -> 60
      [] kind \in {"board", "cardsdir", "list"} -> 30

\* C19: a lookup or read_directory on a directory node refreshes the node
\* exactly when now - last_refreshed >= its interval (60 s for the root, a
\* workspace and a lists collection, 30 s for a board, a cards collection
\* and a list), and a successful refresh of a remote-backed node leaves
\* last_refreshed at the current time
C19_RefreshWhenDue ==
    [][(reply = NoReply /\ reply'.op \in {"lookup", "readdir"}
          /\ reply'.pid # 0
          /\ KindAt(reply'.ino) \in {"root", "workspace", "board", "cardsdir",
                                     "listsdir", "list"})
       => LET n == InodeAt(inodes, reply'.ino)
              due == now - nodes[n].lastUpdate >= ClaimedInterval(nodes[n].kind)
          IN  /\ reply'.refresh \in {"ok", "failed", "fresh"}
              /\ due <=> reply'.refresh \in {"ok", "failed"}
              /\ (due /\ nodes[n].kind \in RemoteBacked)
                   <=> reply'.query # "none"
              /\ ~due => nodes' = nodes /\ inodes' = inodes
              /\ (reply'.refresh = "ok" /\ nodes[n].kind \in RemoteBacked)
                   => nodes'[n].lastUpdate = now]_vars

\* a cards collection was asked for again exactly one interval after its
\* last successful refresh, and the remote service was queried
C19_RefreshAtExactInterval ==
    /\ Reached
    /\ KindAt(reply.ino) = "cardsdir"
    /\ reply.refresh = "failed"
    /\ reply.query # "none"
    /\ NodeAt(reply.ino).lastUpdate # ZeroTime
    /\ now - NodeAt(reply.ino).lastUpdate = 30

\* C20: a field file never refreshes; once created its name, content, size
\* and inode id are the same in every later state, and no later refresh of
\* its card, a list or a cards collection gives the card a second file for
\* the same field
C20_FieldFilesImmutable ==
    [][/\ \A f \in Refs :
            nodes[f].kind = "file" =>
              /\ ~ShouldUpdate(nodes, f, now)
              /\ nodes[f].NodeID > RootInodeID
              /\ nodes'[f] = nodes[f]
              /\ InodeAt(inodes', nodes[f].NodeID) = f
       /\ \A c \in Refs :
            nodes[c].kind = "card" =>
              /\ Len(nodes[c].MetaFiles) <= Len(nodes'[c].MetaFiles)
              /\ \A i \in 1..Len(nodes[c].MetaFiles) :
                   nodes'[c].MetaFiles[i] = nodes[c].MetaFiles[i]
              /\ \A i, j \in 1..Len(nodes'[c].MetaFiles) :
                   i # j => nodes'[nodes'[c].MetaFiles[i]].name
                              # nodes'[nodes'[c].MetaFiles[j]].name
       /\ (reply = NoReply /\ reply'.op \in {"lookup", "readdir"}
             /\ KindAt(reply'.ino) = "file")
          => reply'.refresh = "fresh" /\ nodes' = nodes]_vars

\* a list or a cards collection was refreshed with a record of a card whose
\* field files exist, and the record's field values differ from those the
\* files were rendered from
C20_ChangedValuesSeen ==
    /\ Reached
    /\ KindAt(reply.ino) \in {"list", "cardsdir"}
    /\ reply.refresh = "ok"
    /\ \E c \in Refs :
         /\ nodes[c].kind = "card"
         /\ nodes[c].MetaFiles # <<>>
         /\ \E i \in 1..Len(reply.resp.recs) :
              /\ reply.resp.recs[i].ID = nodes[c].TrelloID
              /\ reply.resp.recs[i].DueComplete # nodes[c].Card.DueComplete
              /\ reply.resp.recs[i].Desc # nodes[c].Card.Desc

\* a card that has its field files was refreshed once more
C20_CardRefreshedAgain ==
    /\ Reached
    /\ KindAt(reply.ino) = "card"
    /\ reply.refresh = "ok"
    /\ reply.added = <<>>
    /\ NodeAt(reply.ino).MetaFiles # <<>>

\* in every state: a thread inside the body of a locking operation holds
\* the lock, so no two threads are inside such bodies together
LockedSectionsExclusive ==
    /\ \A t \in Threads :
         (InBody(t) /\ pc[t].op \in {"lookup", "getattr", "readdir", "read"})
         => lock = t
    /\ \A t, u \in Threads : (t # u /\ InBody(t)) => ~InBody(u)
    /\ lock # NoThread => InBody(lock)

\* in every step: the lock is taken when the body is entered and given up
\* only by the return of its holder; the tree and the table change, and a
\* locking operation answers, only in the step in which the holder returns
HeldUntilReturn ==
    /\ \A t \in Threads :
         /\ (~InBody(t) /\ InBody(t)') => (lock = NoThread /\ lock' = t)
         /\ (lock = t /\ lock' # t) =>
              /\ pc'[t] = Outside
              /\ reply'.op = pc[t].op /\ reply'.ino = pc[t].ino
         /\ (pc[t].at = "waiting" /\ pc'[t].at = "waiting") =>
              /\ lock' = t
              /\ nodes' = nodes /\ inodes' = inodes
              /\ freeInodes' = freeInodes /\ byID' = byID
              /\ reply'.pid # 0 => reply'.op = "none"
    /\ (\/ nodes' # nodes \/ inodes' # inodes
        \/ freeInodes' # freeInodes \/ byID' # byID
        \/ (reply' # reply /\ reply'.pid # 0 /\ reply'.op # "none"))
       => /\ lock # NoThread
          /\ InBody(lock)
          /\ reply'.op = pc[lock].op /\ reply'.ino = pc[lock].ino
          /\ \A u \in Threads \ {lock} : pc'[u] = pc[u]
          /\ crashed' \/ (lock' = NoThread /\ pc'[lock] = Outside)

\* C12: no two of lookup, get_attributes, read_directory and read_file are
\* inside their locked sections together; each holds the filesystem-wide
\* lock from before its first read of the inode table until it returns,
\* the remote query of a refresh included, and while one waits for the
\* remote service no other operation reads or changes the tree or the table
C12_GlobalSerialization == []LockedSectionsExclusive /\ [][HeldUntilReturn]_vars

\* one thread waits for the remote service inside a refresh while another,
\* called for a different directory, is stopped at the lock
C12_BlockedBehindQuery ==
    \E t, u \in Threads :
       /\ pc[t].at = "waiting" /\ lock = t
       /\ pc[u].at = "called" /\ pc[u].op \in Locking
       /\ pc[u].ino # pc[t].ino
       /\ KindAt(pc[u].ino) # "nil"

\* C21: get_attributes and read_file never refresh and never ask the remote
\* service, also on a stale node; they leave every node (children, indices,
\* attributes, last_refreshed), the inode table, the free stack and the
\* remote-key index as they were
C21_NoRefreshOutsideLookupAndReadDir ==
    [][(reply = NoReply /\ reply'.op \in {"getattr", "read"})
       => /\ nodes' = nodes
          /\ inodes' = inodes
          /\ freeInodes' = freeInodes
          /\ byID' = byID
          /\ reply'.refresh = "none"
          /\ reply'.query = "none"
          /\ reply'.added = <<>>]_vars

\* get_attributes has answered for a remote-backed directory that is stale
C21_StaleNodeAsked ==
    /\ reply.op = "getattr"
    /\ reply.status = "ok"
    /\ reply.pid # 0
    /\ KindAt(reply.ino) \in RemoteBacked
    /\ ShouldUpdate(nodes, InodeAt(inodes, reply.ino), now)
    /\ NodeAt(reply.ino).lastUpdate # ZeroTime

\* the list the remote service has the card with this id on
ListOfCard(id) == (CHOOSE c \in ListsWorld.cards : c.ID = id).ListID

\* C22: a refresh of a list node asks the remote service for the cards of
\* the list with that node's own remote id, and a list directory holds only
\* cards the service has on that list
C22_ListHoldsItsOwnCards ==
    /\ (Reached /\ KindAt(reply.ino) = "list"
          /\ reply.refresh \in {"ok", "failed"})
       => reply.query = "list-cards/" \o NodeAt(reply.ino).TrelloID
    /\ \A n \in Refs :
         nodes[n].kind = "list" =>
           \A i \in 1..Len(nodes[n].Cards) :
              ListOfCard(nodes[nodes[n].Cards[i]].TrelloID) = nodes[n].TrelloID

\* the node at table slot i + 1 is indexed under its remote key with its id
Indexed(i) ==
    /\ MapHas(byID, nodes[inodes[i + 1]].TrelloID)
    /\ byID[nodes[inodes[i + 1]].TrelloID] = i
    /\ nodes[inodes[i + 1]].NodeID = i

IndexAgrees ==
    /\ \A i \in (RootInodeID + 1)..(Len(inodes) - 1) :
         InodeAt(inodes, i) # NIL => Indexed(i)
    /\ \A k \in DOMAIN byID :
         /\ byID[k] > RootInodeID /\ byID[k] < Len(inodes)
         /\ InodeAt(inodes, byID[k]) # NIL
         /\ NodeAt(byID[k]).TrelloID = k

MountUid == nodes[1].uid
MountGid == nodes[1].gid

\* every directory is 0700 with the directory bit, every field file is 0600
\* and as large as its content, and both belong to the mounting user
AttributeProfile ==
    /\ MountUid \in Uids /\ MountGid \in Gids
    /\ \A n \in Refs :
         /\ nodes[n].NodeAttrs.Uid = MountUid
         /\ nodes[n].NodeAttrs.Gid = MountGid
         /\ IF nodes[n].kind = "file"
            THEN /\ nodes[n].NodeAttrs.Mode = "0600"
                 /\ ~nodes[n].isDir
                 /\ nodes[n].NodeAttrs.Size = Len(nodes[n].contents)
            ELSE /\ nodes[n].NodeAttrs.Mode = "0700|ModeDir"
                 /\ nodes[n].isDir

\* C24: every directory node has mode owner-rwx-only with the directory bit
\* and the mount-time uid and gid, every field file has mode owner-rw-only,
\* the mount-time uid and gid and a size equal to the length of its content,
\* and no step changes the attributes of a node that exists
C24_AttributeProfile ==
    /\ []AttributeProfile
    /\ [][\A n \in Refs : nodes'[n].NodeAttrs = nodes[n].NodeAttrs]_vars

\* a lookup has answered with the attributes of a field file that has content
C24_FileAttributesSeen ==
    /\ reply.op = "lookup"
    /\ reply.status = "ok"
    /\ KindAt(reply.child) = "file"
    /\ reply.attrs.Mode = "0600"
    /\ reply.attrs.Size > 0
    /\ \E n \in Refs : nodes[n].kind = "list"

\* C25: a set-attributes request always returns an error and changes no
\* attribute, no node and no table entry
C25_ReadOnly ==
    [][(reply = NoReply /\ reply'.op = "setattr")
       => /\ reply'.status \in {"EINVAL", "EIO"}
          /\ reply'.pid # 0 => reply'.status = "EIO"
          /\ ~crashed'
          /\ nodes' = nodes
          /\ inodes' = inodes
          /\ freeInodes' = freeInodes
          /\ byID' = byID]_vars

\* a process asked to set the attributes of a directory that exists below
\* the root and got an input/output error
C25_SetAttributesRefused ==
    /\ reply.op = "setattr"
    /\ reply.pid # 0
    /\ reply.status = "EIO"
    /\ reply.ino > RootInodeID
    /\ KindAt(reply.ino) # "nil"

\* C26: a read of a field file of content length L at offset <= L with a
\* buffer of B bytes returns min(B, L - offset) bytes, the content from
\* offset on, and signals end-of-data whenever offset + count = L, also
\* when the buffer is exactly as long as the remaining content
C26_ReadReachesEnd ==
    (reply.op = "read" /\ KindAt(reply.ino) = "file"
       /\ reply.offset <= Len(NodeAt(reply.ino).contents))
    => LET contents == NodeAt(reply.ino).contents
           count == Min(reply.dstLen, Len(contents) - reply.offset)
       IN  /\ reply.status = "ok"
           /\ reply.bytes = count
           /\ reply.data = SubSeq(contents, reply.offset + 1,
                                  reply.offset + count)
           /\ (reply.offset + reply.bytes = Len(contents)) => reply.eof

\* C27: the record stored in every card node has its Board set, and no
\* refresh of a card, read_directory on a card or read of a field file ends
\* the process on an absent board
C27_CardsCarryTheirBoard ==
    /\ \A n \in Refs : nodes[n].kind = "card" => nodes[n].Card.Board # NoBoard
    /\ (reply.op \in {"lookup", "readdir", "read"}
          /\ KindAt(reply.ino) \in {"card", "file"})
       => (reply.status # "panic" /\ ~crashed)

\* C28: the record held by every card node is the returned record with that
\* node's remote id, also when one refresh created several card nodes
C28_CardKeepsItsOwnRecord ==
    /\ \A n \in Refs :
         nodes[n].kind = "card" => nodes[n].Card.ID = nodes[n].TrelloID
    /\ (Reached /\ reply.refresh = "ok"
          /\ KindAt(reply.ino) \in {"cardsdir", "list"})
       => \A j \in 1..Len(reply.added) :
             \E i \in 1..Len(reply.resp.recs) :
                /\ reply.resp.recs[i].ID = nodes[reply.added[j]].TrelloID
                /\ reply.resp.recs[i].Name = nodes[reply.added[j]].Card.Name

\* the records of recs whose remote id is not in ids, in the order returned
FreshRecs(recs, ids) == SelectSeq(recs, LAMBDA r : r.ID \notin ids)

\* In this step a successful refresh of directory n merged the returned
\* records by remote id: one child per record whose id was not under n,
\* appended in the order returned, every child that was there in place with
\* its inode id, name and children. With created, each appended child is a
\* node of this refresh and added is exactly the appended children; without,
\* an appended child is the card node the board already has for the id when
\* it has one, and added is the appended children that are nodes of this
\* refresh.
MergedById(n, created) ==
    LET old == Children(nodes, n)
        new == Children(nodes', n)
        ids == {nodes[old[i]].TrelloID : i \in 1..Len(old)}
        fresh == FreshRecs(reply'.resp.recs, ids)
        appended == SubSeq(new, Len(old) + 1, Len(new))
        b == nodes[n].BoardNode
    IN  /\ Len(new) = Len(old) + Len(fresh)
        /\ \A i \in 1..Len(old) :
             /\ new[i] = old[i]
             /\ nodes'[old[i]].NodeID = nodes[old[i]].NodeID
             /\ nodes'[old[i]].name = nodes[old[i]].name
             /\ Children(nodes', old[i]) = Children(nodes, old[i])
        /\ \A j \in 1..Len(fresh) :
             /\ nodes'[appended[j]].TrelloID = fresh[j].ID
             /\ nodes'[appended[j]].NodeID > RootInodeID
             /\ appended[j] > Len(nodes) => nodes'[appended[j]].name = fresh[j].Name
             /\ created => appended[j] > Len(nodes)
             /\ ~created =>
                  IF MapHas(nodes[b].ByCardID, fresh[j].ID)
                  THEN appended[j] = nodes[b].ByCardID[fresh[j].ID]
                  ELSE appended[j] > Len(nodes)
        /\ reply'.added = SelectSeq(appended, LAMBDA c : c > Len(nodes))

\* a lookup or read_directory of this step refreshed a directory of one of
\* these kinds successfully
RefreshedOk(kinds) ==
    /\ reply = NoReply
    /\ reply'.op \in {"lookup", "readdir"}
    /\ reply'.refresh = "ok"
    /\ KindAt(reply'.ino) \in kinds

\* C29 as stated: every successful refresh of a remote-backed directory, a
\* list included, creates a child for exactly the returned records whose
\* remote id is not yet under the node, appends them in the order returned,
\* returns exactly them as added and leaves the children it had untouched
C29_EveryRefreshCreatesItsChildren ==
    [][RefreshedOk(RemoteBacked)
       => MergedById(InodeAt(inodes, reply'.ino), TRUE)]_vars

\* C29: a successful refresh of the root, a workspace, a cards collection or
\* a lists collection creates a child for exactly the returned records
\* whose remote id is not yet under the node, appends them in the order
\* returned, returns exactly them as added and leaves the children it had
\* untouched; a successful refresh of a list does the same, except that for
\* a record whose card the board already has it appends that existing card
\* node and does not return it as added
C29_MergeByRemoteId ==
    [][/\ RefreshedOk(RemoteBacked \ {"list"})
            => MergedById(InodeAt(inodes, reply'.ino), TRUE)
       /\ RefreshedOk({"list"})
            => MergedById(InodeAt(inodes, reply'.ino), FALSE)]_vars

\* a cards collection that had a child was refreshed with that child's
\* record followed by a record of the same name and a new remote id
C29_PresentAndNewRecord ==
    /\ Reached
    /\ reply.refresh = "ok"
    /\ KindAt(reply.ino) = "cardsdir"
    /\ Len(reply.added) = 1
    /\ Len(reply.resp.recs) = 2
    /\ Len(Children(nodes, InodeAt(inodes, reply.ino))) = 2
    /\ reply.resp.recs[1].ID = nodes[Children(nodes, InodeAt(inodes, reply.ino))[1]].TrelloID
    /\ reply.resp.recs[1].Name = reply.resp.recs[2].Name

\* C30: a lookup of a name that several children of the directory carry
\* resolves to the child observed first, the one with the lowest index in
\* the child sequence, in every state
C30_FirstObservedWins ==
    (reply.op = "lookup" /\ reply.status = "ok"
       /\ KindAt(reply.ino) \in {"root", "workspace", "cardsdir", "listsdir",
                                 "list"})
    => LET kids == Children(nodes, InodeAt(inodes, reply.ino)) IN
       \E i \in 1..Len(kids) :
          /\ nodes[kids[i]].name = reply.name
          /\ nodes[kids[i]].NodeID = reply.child
          /\ \A j \in 1..(i - 1) : nodes[kids[j]].name # reply.name
          /\ \A j \in 1..Len(kids) :
               nodes[kids[j]].NodeID = reply.child => kids[j] = kids[i]

\* a name that two different children of a directory carry was looked up
C30_DuplicateNameLookedUp ==
    /\ reply.op = "lookup"
    /\ reply.status = "ok"
    /\ KindAt(reply.ino) # "nil"
    /\ LET kids == Children(nodes, InodeAt(inodes, reply.ino)) IN
       \E i, j \in 1..Len(kids) :
          /\ i < j
          /\ kids[i] # kids[j]
          /\ nodes[kids[i]].name = reply.name
          /\ nodes[kids[j]].name = reply.name
          /\ nodes[kids[i]].TrelloID # nodes[kids[j]].TrelloID

\* the id the j-th node of one refresh gets from a free stack free and a
\* table of length len: the freed ids from the top of the stack down, then
\* the lengths the growing table has
ExpectedId(free, len, j) ==
    IF j <= Len(free) THEN free[Len(free) - j + 1] ELSE len + (j - Len(free)) - 1

\* in every state: every node has an inode id, the table holds it at that
\* index, and no two nodes share an id
IdsDistinct ==
    /\ \A n \in Refs :
         /\ nodes[n].NodeID >= RootInodeID
         /\ nodes[n].NodeID < Len(inodes)
         /\ InodeAt(inodes, nodes[n].NodeID) = n
    /\ \A n, m \in Refs : n # m => nodes[n].NodeID # nodes[m].NodeID

\* in every step: the nodes a refresh returns as added get the freed ids
\* from the top of the free stack, then the table's growing length; each is
\* stored at its index, the stack is popped once per reused id, the table
\* grows by one per other node, and no occupied slot is written
AllocatedInOrder ==
    LET add == reply'.added
        reused == Min(Len(add), Len(freeInodes))
    IN  /\ Len(nodes') = Len(nodes) + Len(add)
        /\ \A j \in 1..Len(add) :
             /\ add[j] = Len(nodes) + j
             /\ nodes'[add[j]].NodeID = ExpectedId(freeInodes, Len(inodes), j)
             /\ InodeAt(inodes', nodes'[add[j]].NodeID) = add[j]
        /\ Len(inodes') = Len(inodes) + Len(add) - reused
        /\ freeInodes' = SubSeq(freeInodes, 1, Len(freeInodes) - reused)
        /\ \A i \in 1..Len(inodes) : inodes[i] # NIL => inodes'[i] = inodes[i]
        /\ \A n \in Refs : nodes'[n].NodeID = nodes[n].NodeID

\* C31: each node returned as added by a refresh gets the most recently
\* freed id when the free stack is non-empty, which is then popped, and
\* otherwise the id equal to the table's length, the table growing by one;
\* the node is stored at exactly that index, no allocation overwrites an
\* occupied slot, and no two distinct nodes ever have the same inode id
C31_InodeAllocation == []IdsDistinct /\ [][AllocatedInOrder]_vars

\* one refresh has allocated the ids of two nodes, one after the other, in a
\* table that already held allocated nodes
C31_TwoIdsAllocated ==
    /\ Reached
    /\ reply.refresh = "ok"
    /\ Len(reply.added) = 2
    /\ nodes[reply.added[1]].NodeID > RootInodeID + 1
    /\ nodes[reply.added[2]].NodeID = nodes[reply.added[1]].NodeID + 1
    /\ Len(inodes) = nodes[reply.added[2]].NodeID + 1

\* C32: every directory node is created with last_refreshed at the zero
\* time, and a lookup or read_directory that addresses a directory whose
\* last_refreshed is still the zero time runs its refresh, at any time
C32_FirstAccessRefreshes ==
    [][/\ \A n \in (Len(nodes) + 1)..Len(nodes') :
            nodes'[n].lastUpdate = ZeroTime
       /\ (reply = NoReply /\ reply'.op \in {"lookup", "readdir"}
             /\ reply'.pid # 0
             /\ KindAt(reply'.ino) \notin {"nil", "file"}
             /\ nodes[InodeAt(inodes, reply'.ino)].lastUpdate = ZeroTime)
          => /\ reply'.refresh \in {"ok", "failed", "panic"}
             /\ nodes[InodeAt(inodes, reply'.ino)].kind \in RemoteBacked
                  => reply'.refresh \in {"ok", "failed"}
                     /\ reply'.query # "none"]_vars

\* a workspace that had never been refreshed was addressed after time had
\* passed, and its refresh asked the remote service
C32_FirstAccessLater ==
    /\ Reached
    /\ KindAt(reply.ino) = "workspace"
    /\ reply.refresh = "failed"
    /\ reply.query # "none"
    /\ NodeAt(reply.ino).lastUpdate = ZeroTime
    /\ now > StartTime

\* a thread is between the call of a locking operation and its return
InFlight(t) == pc[t] # Outside /\ pc[t].op \in Locking

\* C33: under fair scheduling, and with every remote query returning or
\* failing, every lookup, get_attributes, read_directory and read_file that
\* was called eventually completes and has released the filesystem lock
C33_EveryOperationCompletes ==
    \A t \in Threads : InFlight(t) ~> (pc[t] = Outside /\ lock # t)

\* the same while the process runs: an operation in flight completes and
\* releases the lock, unless the process terminates first
C33_CompletesUnlessTerminated ==
    \A t \in Threads : InFlight(t) ~> ((pc[t] = Outside /\ lock # t) \/ crashed)

\* thread u is inside a lookup or a read_directory on inode ino, between its
\* call and its return
AccessInFlight(u, ino) ==
    /\ pc[u].at \in {"called", "in", "waiting"}
    /\ pc[u].op \in {"lookup", "readdir"}
    /\ pc[u].ino = ino

\* the children of n are one node per record, each under an inode id of its
\* own that names it (in the tables h and tbl)
OneNodePerRecord(h, tbl, n) ==
    LET kids == Children(h, n) IN
    /\ \A i \in 1..Len(kids) :
          /\ h[kids[i]].NodeID > RootInodeID
          /\ h[kids[i]].NodeID < Len(tbl)
          /\ InodeAt(tbl, h[kids[i]].NodeID) = kids[i]
    /\ \A i, j \in 1..Len(kids) :
          i # j => /\ kids[i] # kids[j]
                   /\ h[kids[i]].TrelloID # h[kids[j]].TrelloID
                   /\ h[kids[i]].NodeID # h[kids[j]].NodeID

\* thread t returns from its operation in this step
Returns(t) == InBody(t) /\ pc'[t] = Outside

\* what a step does while thread u is inside an access to the directory at
\* ino: the access of another thread that queries the remote service with
\* success leaves the directory fresh and one node per record; and once the
\* directory is fresh, no step changes its children or makes it due, and the
\* access of u, when it returns, has asked nothing, created nothing and
\* answers from those children
RefreshedOnceFor(u, ino) ==
    LET n == InodeAt(inodes, ino) IN
    /\ \A t \in Threads \ {u} :
          (AccessInFlight(t, ino) /\ Returns(t) /\ reply'.refresh = "ok")
            => /\ reply'.query = QueryOf(nodes, n)
               /\ ~ShouldUpdate(nodes', n, now')
               /\ OneNodePerRecord(nodes', inodes', n)
               /\ AccessInFlight(u, ino)'
    /\ ~ShouldUpdate(nodes, n, now)
         => /\ Children(nodes', n) = Children(nodes, n)
            /\ ~ShouldUpdate(nodes', n, now')
            /\ Returns(u)
                 => /\ reply'.query = "none" /\ reply'.refresh = "fresh"
                    /\ nodes' = nodes /\ inodes' = inodes
                    /\ pc[u].op = "readdir"
                         => reply'.entries =
                              ReadDir(nodes, n, TreeDirBuf, 0).entries
                    /\ pc[u].op = "lookup"
                         => LET c == LookupChild(nodes, n, pc[u].name) IN
                            IF c = NIL THEN reply'.status = "ENOENT"
                            ELSE reply'.child = nodes[c].NodeID

CardsNeverStamped ==
    \A c \in Refs :
      nodes[c].kind = "card" =>
        /\ nodes[c].lastUpdate = ZeroTime
        /\ nodes'[c].lastUpdate = ZeroTime
        /\ nodes[c].MetaFiles # <<>> => nodes'[c].MetaFiles = nodes[c].MetaFiles

\* a lookup or read_directory on a card runs the card's refresh, which adds
\* the files on its first run and nothing from then on
CardRefreshRunsAgain ==
    (reply = NoReply /\ reply'.op \in {"lookup", "readdir"} /\ reply'.pid # 0
       /\ KindAt(reply'.ino) = "card")
    => LET c == InodeAt(inodes, reply'.ino) IN
       /\ reply'.refresh \in {"ok", "panic"}
       /\ reply'.refresh = "ok" =>
            IF nodes[c].MetaFiles = <<>>
            THEN /\ reply'.added # <<>>
                 /\ nodes'[c].MetaFiles = reply'.added
            ELSE /\ reply'.added = <<>>
                 /\ Len(nodes') = Len(nodes)
                 /\ inodes' = inodes /\ freeInodes' = freeInodes
                 /\ byID' = byID

\* C35: a card's refresh never advances the card's last_refreshed, so every
\* lookup and read_directory on a card runs the refresh again; from its
\* second run on it creates no field file and allocates no inode id, and the
\* card keeps the field files of the first run
C35_CardRefreshNeverStamps == [][CardsNeverStamped /\ CardRefreshRunsAgain]_vars

\* a card that got its field files from an earlier refresh was listed, and
\* the refresh that ran again added nothing
C35_CardRefreshedTwice ==
    /\ reply.op = "readdir" /\ reply.status = "ok"
    /\ KindAt(reply.ino) = "card"
    /\ reply.refresh = "ok"
    /\ reply.added = <<>>
    /\ Len(NodeAt(reply.ino).MetaFiles) >= 2
    /\ reply.entries # <<>>

\* the listing client's directory, when a listing is under way or done
Listing == ls # NoListing /\ KindAt(ls.ino) # "nil"

\* in every state of a listing: what the client has read so far is the
\* children before its resume offset, each once, in order and as they are
\* now
ReadSoFar ==
    Listing =>
      LET kids == Children(nodes, InodeAt(inodes, ls.ino)) IN
      /\ ls.next <= Len(kids)
      /\ Concat(ls.pages) = EntriesOf(kids, 0, ls.next)

\* no step takes a child of the listed directory away or moves it
ListedOnlyAppended ==
    Listing =>
      LET old == Children(nodes, InodeAt(inodes, ls.ino))
          new == Children(nodes', InodeAt(inodes, ls.ino))
      IN  /\ Len(old) <= Len(new)
          /\ SubSeq(new, 1, Len(old)) = old

\* the call for a later page resumes at the offset the client holds and
\* returns the children from that index on, those its own refresh added
\* included, as many as the buffer holds and at least one if there is one
ResumedFromOffset ==
    (ls # NoListing /\ ls'.ino = ls.ino
       /\ Len(ls'.pages) = Len(ls.pages) + 1)
    => LET new == Children(nodes', InodeAt(inodes, ls.ino))
           page == reply'.entries
       IN  /\ reply'.offset = ls.next
           /\ Len(page) <= Len(new) - ls.next
           /\ Len(new) > ls.next => Len(page) >= 1
           /\ \A i \in 1..Len(page) :
                /\ page[i].Inode = nodes'[new[ls.next + i]].NodeID
                /\ page[i].Name = nodes'[new[ls.next + i]].name
                /\ page[i].Offset = ls.next + i
           /\ Len(page) < Len(new) - ls.next
                => SizeOf(page)
                     + DirentLen(nodes'[new[ls.next + Len(page) + 1]].name)
                   > ls.dstLen

RefreshOkOf(kind) ==
    /\ reply = NoReply /\ reply'.op \in {"lookup", "readdir"}
    /\ KindAt(reply'.ino) = kind
    /\ reply'.refresh = "ok"

\* the child sequences of all directories but those in except are as before
KidsUnchangedBut(except) ==
    \A n \in Refs \ except : Kids(nodes', n) = Kids(nodes, n)

\* a successful refresh of a list: every card node it creates is a child of
\* the board's cards collection and lookup resolves its name there to it;
\* only the list's and the cards collection's children change
ListRefreshReachesCards ==
    RefreshOkOf("list") =>
      LET l == InodeAt(inodes, reply'.ino)
          b == nodes[l].BoardNode
          cd == nodes[b].MetaCardsDir
      IN  /\ \A a \in 1..Len(reply'.added) :
                LET c == reply'.added[a] IN
                /\ \E i \in 1..Len(nodes'[b].Cards) : nodes'[b].Cards[i] = c
                /\ \E i \in 1..Len(nodes'[l].Cards) : nodes'[l].Cards[i] = c
                /\ LookupChild(nodes', cd, nodes'[c].name) = c
          /\ KidsUnchangedBut({l, cd})

\* a successful refresh of a cards collection changes the children of no
\* other directory, those of the lists included
CardsRefreshLeavesLists ==
    RefreshOkOf("cardsdir") =>
      KidsUnchangedBut({InodeAt(inodes, reply'.ino)})

\* C37: a successful refresh of lists/<L> makes every card node it creates
\* a child of the board's cards collection too, resolvable there by its
\* name; a refresh of the cards collection changes the children of no list;
\* neither changes the children of a workspace, the root or another board
C37_CrossCollectionEffect ==
    [][ListRefreshReachesCards /\ CardsRefreshLeavesLists]_vars

\* the same with the name resolution left to the cards whose name no other
\* child of the cards collection has: the membership, and the children that
\* stay, do not depend on the names
ListRefreshJoinsCards ==
    RefreshOkOf("list") =>
      LET l == InodeAt(inodes, reply'.ino)
          b == nodes[l].BoardNode
          cd == nodes[b].MetaCardsDir
          kids == nodes'[b].Cards
      IN  /\ \A a \in 1..Len(reply'.added) :
                LET c == reply'.added[a] IN
                /\ \E i \in 1..Len(kids) : kids[i] = c
                /\ \E i \in 1..Len(nodes'[l].Cards) : nodes'[l].Cards[i] = c
                /\ nodes'[b].ByCardID[nodes'[c].TrelloID] = c
                /\ (\A i \in 1..Len(kids) :
                       nodes'[kids[i]].name = nodes'[c].name => kids[i] = c)
                   => LookupChild(nodes', cd, nodes'[c].name) = c
          /\ KidsUnchangedBut({l, cd})

C37_ExceptShadowedNames ==
    [][ListRefreshJoinsCards /\ CardsRefreshLeavesLists]_vars

\* a lookup or read_directory asks the remote service at most the one query
\* of the node it addresses and stamps no other node; the child a lookup
\* resolves keeps its last_refreshed and its children, and a child the
\* parent's refresh has just created has never been refreshed and has none
OnlyAddressedNodeRefreshed ==
    (reply = NoReply /\ reply'.op \in {"lookup", "readdir"} /\ reply'.pid # 0
       /\ KindAt(reply'.ino) # "nil" /\ reply'.status \in {"ok", "ENOENT"})
    => LET n == InodeAt(inodes, reply'.ino) IN
       /\ reply'.query \in {"none", QueryOf(nodes, n)}
       /\ reply'.refresh = "fresh" => reply'.query = "none"
       /\ \A m \in Refs \ {n} : nodes'[m].lastUpdate = nodes[m].lastUpdate
       /\ \A m \in (Len(nodes) + 1)..Len(nodes') :
            nodes'[m].lastUpdate = ZeroTime
       /\ (reply'.op = "lookup" /\ reply'.child # 0)
            => LET c == InodeAt(inodes', reply'.child) IN
               /\ c # n
               /\ IF c \in Refs
                  THEN /\ nodes'[c].lastUpdate = nodes[c].lastUpdate
                       /\ Kids(nodes', c) = Kids(nodes, c)
                  ELSE /\ nodes'[c].lastUpdate = ZeroTime
                       /\ Kids(nodes', c) = <<>>

\* C38: each lookup or read_directory performs at most one remote query,
\* the one of the node it addresses; the child a lookup resolves is not
\* refreshed by that lookup, its last_refreshed and its children are as
\* they were
C38_OneQueryPerOperation == [][OnlyAddressedNodeRefreshed]_vars

\* a lookup under lists/ asked for the board's lists and resolved a list
\* that is due for its first refresh; the list was left as it was
C38_DueChildResolved ==
    /\ reply.op = "lookup" /\ reply.status = "ok"
    /\ KindAt(reply.ino) = "listsdir"
    /\ reply.query = QueryOf(nodes, InodeAt(inodes, reply.ino))
    /\ reply.child # 0
    /\ NodeAt(reply.child).kind = "list"
    /\ ShouldUpdate(nodes, InodeAt(inodes, reply.child), now)
    /\ NodeAt(reply.child).lastUpdate = ZeroTime
    /\ NodeAt(reply.child).Cards = <<>>

====
